---------------------------- MODULE Spec2Model ----------------------------
(***************************************************************************)
(* Frame-resource ring, render-item registry, geometry batch and collision *)
(* probe of the three Direct3D12 demo variants:                            *)
(*   castle  : src/Project1/Lee_Shular_Castle.cpp        (CastleDesign)    *)
(*   tex     : src/Project1/TexColumnsApp.cpp            (TexColumnsApp)   *)
(*   shapes  : src/Project1/Week4-2-ShapeAppsUsingRootDescriptor.cpp       *)
(*                                                       (ShapesApp)       *)
(*                                                                         *)
(* Lengths, positions and matrix entries are fixed-point numbers in        *)
(* thousandths (1.0f is 1000); angles are in millionths of a radian.       *)
(***************************************************************************)
EXTENDS Integers, Sequences, FiniteSets, TLC

VARIABLES
  variant,                  \* which application is running
  pc,                       \* position of the CPU thread
  meshes,                   \* output of the GeometryGenerator calls (input)
  tilemap,                  \* CastleDesign::tilemap
  mGeometries,              \* name -> MeshGeometry
  mMaterials,               \* name -> Material
  mAllRitems,               \* the render items, in push_back order
  mRitemLayer,              \* layer -> indices into mAllRitems, in push_back order
  mFrameResources,          \* slot -> FrameResource
  mCurrFrameResourceIndex,
  mCurrFrameResource,       \* slot designated by the pointer, NoSlot for nullptr
  mCurrentFence,            \* D3DApp::mCurrentFence, last fence value handed out
  completedFence,           \* mFence->GetCompletedValue()
  mCamera,                  \* position, look and right vector of the camera
  mLava,
  mIsWireframe,
  lastInput,                \* history: the keys the last OnKeyboardInput saw and the moves it made
  totalTime,                \* mTimer.TotalTime(), in thousandths of a second
  cmdList,                  \* commands recorded by the last Draw
  frameLog,                 \* history: the ring slot each frame used, in frame order
  updateSteps               \* history: the calls the last Update made, in the order made

vars == <<variant, pc, meshes, tilemap, mGeometries, mMaterials,
          mAllRitems, mRitemLayer, mFrameResources, mCurrFrameResourceIndex,
          mCurrFrameResource, mCurrentFence, completedFence, mCamera, mLava,
          mIsWireframe, lastInput, totalTime, cmdList, frameLog, updateSteps>>

-----------------------------------------------------------------------------
(* Program constants *)

gNumFrameResources == 3
tileMapWidth == 40
tileMapHeight == 19

(* Fixed-point unit: 1.0f *)
Unit == 1000

(* Bounds of the model *)
MaxFence == 5               \* Draw is not taken once this many fence values were handed out
DeltaTime == 350            \* gt.DeltaTime() of every frame, in thousandths of a second

NoSlot == -1
Variants == {"castle", "tex", "shapes"}

-----------------------------------------------------------------------------
(* DirectXMath, in fixed point *)

Min2(a, b) == IF a <= b THEN a ELSE b
Max2(a, b) == IF a >= b THEN a ELSE b

Identity4x4 ==
  << <<Unit, 0, 0, 0>>, <<0, Unit, 0, 0>>, <<0, 0, Unit, 0>>, <<0, 0, 0, Unit>> >>

XMMatrixMultiply(A, B) ==
  LET e(i, j) ==
        (A[i][1] * B[1][j] + A[i][2] * B[2][j] + A[i][3] * B[3][j] + A[i][4] * B[4][j]) \div Unit
  IN  << <<e(1, 1), e(1, 2), e(1, 3), e(1, 4)>>, <<e(2, 1), e(2, 2), e(2, 3), e(2, 4)>>,
         <<e(3, 1), e(3, 2), e(3, 3), e(3, 4)>>, <<e(4, 1), e(4, 2), e(4, 3), e(4, 4)>> >>

XMMatrixTranspose(M) ==
  << <<M[1][1], M[2][1], M[3][1], M[4][1]>>, <<M[1][2], M[2][2], M[3][2], M[4][2]>>,
     <<M[1][3], M[2][3], M[3][3], M[4][3]>>, <<M[1][4], M[2][4], M[3][4], M[4][4]>> >>

XMMatrixScaling(x, y, z) ==
  << <<x, 0, 0, 0>>, <<0, y, 0, 0>>, <<0, 0, z, 0>>, <<0, 0, 0, Unit>> >>

XMMatrixTranslation(x, y, z) ==
  << <<Unit, 0, 0, 0>>, <<0, Unit, 0, 0>>, <<0, 0, Unit, 0>>, <<x, y, z, Unit>> >>

Abs(x) == IF x < 0 THEN -x ELSE x

(* sinf and cosf of the angles the sources use, rounded to thousandths *)
SinTable ==
  [a \in {0, 436332, 500000, 610865, 785398, 1047200, 1570800} |->
     CASE a = 0 -> 0        [] a = 436332 -> 423   [] a = 500000 -> 479
       [] a = 610865 -> 574 [] a = 785398 -> 707   [] a = 1047200 -> 866
       [] a = 1570800 -> 1000]
CosTable ==
  [a \in {0, 436332, 500000, 610865, 785398, 1047200, 1570800} |->
     CASE a = 0 -> 1000     [] a = 436332 -> 906   [] a = 500000 -> 878
       [] a = 610865 -> 819 [] a = 785398 -> 707   [] a = 1047200 -> 500
       [] a = 1570800 -> 0]
sinf(a) == IF a < 0 THEN -SinTable[Abs(a)] ELSE SinTable[a]
cosf(a) == CosTable[Abs(a)]

XMMatrixRotationX(a) ==
  << <<Unit, 0, 0, 0>>, <<0, cosf(a), sinf(a), 0>>, <<0, -sinf(a), cosf(a), 0>>, <<0, 0, 0, Unit>> >>
XMMatrixRotationY(a) ==
  << <<cosf(a), 0, -sinf(a), 0>>, <<0, Unit, 0, 0>>, <<sinf(a), 0, cosf(a), 0>>, <<0, 0, 0, Unit>> >>
XMMatrixRotationZ(a) ==
  << <<cosf(a), sinf(a), 0, 0>>, <<-sinf(a), cosf(a), 0, 0>>, <<0, 0, Unit, 0>>, <<0, 0, 0, Unit>> >>

(* roll about z, then pitch about x, then yaw about y *)
XMMatrixRotationRollPitchYaw(pitch, yaw, roll) ==
  XMMatrixMultiply(XMMatrixMultiply(XMMatrixRotationZ(roll), XMMatrixRotationX(pitch)),
                   XMMatrixRotationY(yaw))

(* The factors of a transform expression  A * B * C, kept with their kind *)
Scaling(x, y, z) == [op |-> "S", m |-> XMMatrixScaling(x, y, z)]
RotationRollPitchYaw(p, y, r) == [op |-> "R", m |-> XMMatrixRotationRollPitchYaw(p, y, r)]
Translation(x, y, z) == [op |-> "T", m |-> XMMatrixTranslation(x, y, z)]

RECURSIVE MatrixProduct(_)
MatrixProduct(fs) ==
  IF fs = <<>> THEN Identity4x4
  ELSE IF Len(fs) = 1 THEN fs[1].m
  ELSE XMMatrixMultiply(MatrixProduct(SubSeq(fs, 1, Len(fs) - 1)), fs[Len(fs)].m)

(* XMVector3Transform: row vector times matrix, w = 1 *)
XMVector3Transform(p, M) ==
  LET c(j) == (p[1] * M[1][j] + p[2] * M[2][j] + p[3] * M[3][j]) \div Unit + M[4][j]
  IN  <<c(1), c(2), c(3)>>

VecMin(a, b) == <<Min2(a[1], b[1]), Min2(a[2], b[2]), Min2(a[3], b[3])>>
VecMax(a, b) == <<Max2(a[1], b[1]), Max2(a[2], b[2]), Max2(a[3], b[3])>>

-----------------------------------------------------------------------------
(* DirectXCollision *)

(* BoundingBox(): Center (0,0,0), Extents (1,1,1) *)
DefaultBoundingBox == [Center |-> <<0, 0, 0>>, Extents |-> <<Unit, Unit, Unit>>]

(* Center = 0.5f * (vMin + vMax), Extents = 0.5f * (vMax - vMin) *)
BoxFromMinMax(vMin, vMax) ==
  [Center  |-> <<(vMin[1] + vMax[1]) \div 2, (vMin[2] + vMax[2]) \div 2, (vMin[3] + vMax[3]) \div 2>>,
   Extents |-> <<(vMax[1] - vMin[1]) \div 2, (vMax[2] - vMin[2]) \div 2, (vMax[3] - vMin[3]) \div 2>>]

BoxCorners(b) ==
  { <<b.Center[1] + s[1] * b.Extents[1], b.Center[2] + s[2] * b.Extents[2],
       b.Center[3] + s[3] * b.Extents[3]>> : s \in [1..3 -> {-1, 1}] }

(* the least and the greatest j-th coordinate of the points of S *)
SetMin(S, j) == LET xs == {q[j] : q \in S} IN CHOOSE m \in xs : \A x \in xs : m <= x
SetMax(S, j) == LET xs == {q[j] : q \in S} IN CHOOSE m \in xs : \A x \in xs : m >= x

(* BoundingBox::Transform: the box around the eight transformed corners *)
BoundingBoxTransform(b, M) ==
  LET cs == { XMVector3Transform(c, M) : c \in BoxCorners(b) }
  IN  BoxFromMinMax(<<SetMin(cs, 1), SetMin(cs, 2), SetMin(cs, 3)>>,
                    <<SetMax(cs, 1), SetMax(cs, 2), SetMax(cs, 3)>>)

(* BoundingBox::CreateFromPoints(Out, pt1, pt2) *)
CreateFromPoints(p1, p2) == BoxFromMinMax(VecMin(p1, p2), VecMax(p1, p2))

(* BoundingBox::Contains(box) != DISJOINT : the boxes overlap or touch on every axis *)
NotDisjoint(a, b) ==
  \A j \in 1..3 : Abs(a.Center[j] - b.Center[j]) <= a.Extents[j] + b.Extents[j]

-----------------------------------------------------------------------------
(* GeometryGenerator::MeshData.  The generator's meshes are reduced to a few *)
(* vertices each; Indices32 are local to the mesh (0-based, below the       *)
(* mesh's vertex count).                                                    *)

GridDim == 2                \* rows and columns of the shape grid (the source asks for 41)
LandDim == 3                \* rows and columns of the land grid (the source asks for 50)
WavesDim == 3               \* rows and columns of the wave grid (the source asks for 128)

(* the triangles (0, t+1, t+2) over n vertices *)
FanIndices(n) ==
  [i \in 1..(3 * (n - 2)) |->
     LET t == (i - 1) \div 3
         k == (i - 1) % 3
     IN  IF k = 0 THEN 0 ELSE t + k]

(* two triangles per quad of an m x n vertex grid, row-major *)
QuadIndices(m, n) ==
  [x \in 1..(6 * (m - 1) * (n - 1)) |->
     LET q == (x - 1) \div 6
         k == (x - 1) % 6
         i == q \div (n - 1)
         j == q % (n - 1)
     IN  CASE k = 0 -> i * n + j
           [] k = 1 -> i * n + j + 1
           [] k = 2 -> (i + 1) * n + j
           [] k = 3 -> (i + 1) * n + j
           [] k = 4 -> i * n + j + 1
           [] k = 5 -> (i + 1) * n + j + 1]

MeshData(vs) == [Vertices |-> vs, Indices32 |-> FanIndices(Len(vs))]

CreateBox(w, h, d) ==
  MeshData(<< <<-(w \div 2), -(h \div 2), -(d \div 2)>>, <<-(w \div 2), h \div 2, -(d \div 2)>>,
              <<w \div 2, h \div 2, -(d \div 2)>>,       <<w \div 2, -(h \div 2), -(d \div 2)>>,
              <<-(w \div 2), -(h \div 2), d \div 2>>,    <<-(w \div 2), h \div 2, d \div 2>>,
              <<w \div 2, h \div 2, d \div 2>>,          <<w \div 2, -(h \div 2), d \div 2>> >>)

CreateGrid(w, d, m, n) ==
  [Vertices  |-> [v \in 1..(m * n) |->
                    LET i == (v - 1) \div n
                        j == (v - 1) % n
                    IN  <<-(w \div 2) + j * (w \div (n - 1)), 0, (d \div 2) - i * (d \div (m - 1))>>],
   Indices32 |-> QuadIndices(m, n)]

CreateSphere(r) ==
  MeshData(<< <<0, r, 0>>, <<r, 0, 0>>, <<0, 0, r>>, <<-r, 0, 0>>, <<0, 0, -r>>, <<0, -r, 0>> >>)

CreateCylinder(rb, rt, h) ==
  MeshData(<< <<0, -(h \div 2), 0>>, <<rb, -(h \div 2), 0>>, <<0, -(h \div 2), rb>>,
              <<-rb, -(h \div 2), 0>>, <<0, -(h \div 2), -rb>>,
              <<0, h \div 2, 0>>, <<rt, h \div 2, 0>>, <<0, h \div 2, rt>>,
              <<-rt, h \div 2, 0>>, <<0, h \div 2, -rt>> >>)

CreatePyramid(w, h, d) ==
  MeshData(<< <<0, h \div 2, 0>>, <<-(w \div 2), -(h \div 2), -(w \div 2)>>,
              <<-(w \div 2), -(h \div 2), w \div 2>>, <<w \div 2, -(h \div 2), w \div 2>>,
              <<w \div 2, -(h \div 2), -(w \div 2)>> >>)

CreateCone(r, h) ==
  MeshData(<< <<0, h \div 2, 0>>,
              <<r, -(h \div 2), 0>>, <<r \div 2, -(h \div 2), (r * 866) \div 1000>>,
              <<-(r \div 2), -(h \div 2), (r * 866) \div 1000>>, <<-r, -(h \div 2), 0>>,
              <<-(r \div 2), -(h \div 2), -((r * 866) \div 1000)>>,
              <<r \div 2, -(h \div 2), -((r * 866) \div 1000)>> >>)

CreatePrism(w, h, d) ==
  MeshData(<< <<-(w \div 2), -(h \div 2), -(d \div 2)>>, <<w \div 2, -(h \div 2), -(d \div 2)>>,
              <<0, h \div 2, -(d \div 2)>>,
              <<-(w \div 2), -(h \div 2), d \div 2>>, <<w \div 2, -(h \div 2), d \div 2>>,
              <<0, h \div 2, d \div 2>> >>)

CreateDiamond(w, h, d) ==
  MeshData(<< <<0, h \div 2, 0>>, <<w \div 2, 0, 0>>, <<0, 0, d \div 2>>, <<-(w \div 2), 0, 0>>,
              <<0, 0, -(d \div 2)>>, <<0, -(h \div 2), 0>> >>)

CreateWedge(w, h, d) ==
  MeshData(<< <<-(w \div 2), -(h \div 2), -(d \div 2)>>, <<w \div 2, -(h \div 2), -(d \div 2)>>,
              <<-(w \div 2), h \div 2, -(d \div 2)>>,
              <<-(w \div 2), -(h \div 2), d \div 2>>, <<w \div 2, -(h \div 2), d \div 2>>,
              <<-(w \div 2), h \div 2, d \div 2>> >>)

CreateTorus(R, r) ==
  MeshData(<< <<R + r, 0, 0>>, <<0, 0, R + r>>, <<-(R + r), 0, 0>>, <<0, 0, -(R + r)>>,
              <<R, r, 0>>, <<0, r, R>>, <<R, -r, 0>>, <<0, -r, R>> >>)

(* std::vector<uint16_t>& MeshData::GetIndices16(): each 32-bit index cut to 16 bits *)
GetIndices16(mesh) == [i \in 1..Len(mesh.Indices32) |-> mesh.Indices32[i] % 65536]

(* the ten meshes BuildShapeGeometry asks the generator for *)
ShapeMeshes ==
  [box      |-> CreateBox(Unit, Unit, Unit),
   grid     |-> CreateGrid(Unit, Unit, GridDim, GridDim),
   sphere   |-> CreateSphere(200),
   cylinder |-> CreateCylinder(Unit, Unit, Unit),
   pyramid  |-> CreatePyramid(Unit, Unit, 350),
   cone     |-> CreateCone(Unit, Unit),
   prism    |-> CreatePrism(Unit, Unit, Unit),
   diamond  |-> CreateDiamond(Unit, Unit, Unit),
   wedge    |-> CreateWedge(Unit, Unit, Unit),
   torus    |-> CreateTorus(Unit, 500)]

-----------------------------------------------------------------------------
(* BuildShapeGeometry: ten meshes concatenated into one vertex and one index *)
(* buffer.  The three applications use the same offsets and the same order.  *)

(* the order of the ...VertexOffset / ...IndexOffset chain *)
OffsetOrder ==
  <<"box", "grid", "sphere", "cylinder", "pyramid", "cone", "prism", "diamond", "wedge", "torus">>

(* the copy loops with the first two exchanged *)
GridFirstCopyOrder ==
  <<"grid", "box", "sphere", "cylinder", "pyramid", "cone", "prism", "diamond", "wedge", "torus">>

(* the order of the vertex copy loops *)
VertexCopyOrder ==
  <<"box", "grid", "sphere", "cylinder", "pyramid", "cone", "prism", "diamond", "wedge", "torus">>

(* the order of the indices.insert calls *)
IndexInsertOrder ==
  <<"box", "grid", "sphere", "cylinder", "pyramid", "cone", "prism", "diamond", "wedge", "torus">>

SubmeshNames == {OffsetOrder[i] : i \in 1..Len(OffsetOrder)}

PositionIn(order, name) == CHOOSE i \in 1..Len(order) : order[i] = name

Range(seq) == {seq[i] : i \in DOMAIN seq}

(* xVertexOffset = previousVertexOffset + previous.Vertices.size(), from boxVertexOffset = 0 *)
RECURSIVE VertexOffsetAt(_, _)
VertexOffsetAt(ms, i) ==
  IF i = 1 THEN 0
  ELSE VertexOffsetAt(ms, i - 1) + Len(ms[OffsetOrder[i - 1]].Vertices)

(* every mesh before this one taken to have as many indices as the box *)
BoxStrideIndexOffset(ms, i) == (i - 1) * Len(ms["box"].Indices32)

(* xIndexOffset = previousIndexOffset + previous.Indices32.size(), from boxIndexOffset = 0 *)
RECURSIVE IndexOffsetAt(_, _)
IndexOffsetAt(ms, i) ==
  IF i = 1 THEN 0
  ELSE IndexOffsetAt(ms, i - 1) + Len(ms[OffsetOrder[i - 1]].Indices32)

(* vertices[k] after the first i copy loops *)
RECURSIVE ConcatVertices(_, _)
ConcatVertices(ms, i) ==
  IF i = 0 THEN <<>>
  ELSE ConcatVertices(ms, i - 1) \o ms[VertexCopyOrder[i]].Vertices

(* indices after the first i insert calls *)
RECURSIVE ConcatIndices(_, _)
ConcatIndices(ms, i) ==
  IF i = 0 THEN <<>>
  ELSE ConcatIndices(ms, i - 1) \o GetIndices16(ms[IndexInsertOrder[i]])

(* vMin and vMax start at +-Infinity before the first copy loop and are    *)
(* folded over every vertex copied so far: no loop resets them.            *)
vMinAfter(ms, i) ==
  LET ps == Range(ConcatVertices(ms, i)) IN <<SetMin(ps, 1), SetMin(ps, 2), SetMin(ps, 3)>>
vMaxAfter(ms, i) ==
  LET ps == Range(ConcatVertices(ms, i)) IN <<SetMax(ps, 1), SetMax(ps, 2), SetMax(ps, 3)>>

ShapeSubmesh(ms, name, withBounds) ==
  [IndexCount         |-> Len(ms[name].Indices32),
   StartIndexLocation |-> IndexOffsetAt(ms, PositionIn(OffsetOrder, name)),
   BaseVertexLocation |-> VertexOffsetAt(ms, PositionIn(OffsetOrder, name)),
   Bounds             |-> IF withBounds
                          THEN BoxFromMinMax(vMinAfter(ms, PositionIn(VertexCopyOrder, name)),
                                             vMaxAfter(ms, PositionIn(VertexCopyOrder, name)))
                          ELSE DefaultBoundingBox]

(* d3dUtil::CreateDefaultBuffer: a buffer of its own, filled once *)
DefaultBuffer == "default"

(* withBounds: only CastleDesign stores a Bounds per sub-mesh *)
BuildShapeGeometry(ms, withBounds) ==
  [VertexCount |-> Len(ConcatVertices(ms, Len(VertexCopyOrder))),
   VertexBufferGPU |-> DefaultBuffer,
   Vertices    |-> ConcatVertices(ms, Len(VertexCopyOrder)),
   Indices     |-> ConcatIndices(ms, Len(IndexInsertOrder)),
   DrawArgs    |-> [box      |-> ShapeSubmesh(ms, "box", withBounds),
                    grid     |-> ShapeSubmesh(ms, "grid", withBounds),
                    sphere   |-> ShapeSubmesh(ms, "sphere", withBounds),
                    cylinder |-> ShapeSubmesh(ms, "cylinder", withBounds),
                    pyramid  |-> ShapeSubmesh(ms, "pyramid", withBounds),
                    cone     |-> ShapeSubmesh(ms, "cone", withBounds),
                    prism    |-> ShapeSubmesh(ms, "prism", withBounds),
                    diamond  |-> ShapeSubmesh(ms, "diamond", withBounds),
                    wedge    |-> ShapeSubmesh(ms, "wedge", withBounds),
                    torus    |-> ShapeSubmesh(ms, "torus", withBounds)]]

(* a batch with one sub-mesh that starts at index 0 and vertex 0 *)
SingleSubmesh(name, indexCount) ==
  [n \in {name} |-> [IndexCount |-> indexCount, StartIndexLocation |-> 0,
                     BaseVertexLocation |-> 0, Bounds |-> DefaultBoundingBox]]

(* BuildLandGeometry: the grid, with part of its second half lowered by 10 *)
BuildLandGeometry(grid) ==
  LET size == Len(grid.Vertices)
      lowered == {i + (size \div 2) : i \in 0..((size \div 5) - 1)}
  IN  [VertexCount |-> size,
       VertexBufferGPU |-> DefaultBuffer,
       Vertices    |-> [v \in 1..size |->
                          IF (v - 1) \in lowered
                          THEN <<grid.Vertices[v][1], grid.Vertices[v][2] - 10 * Unit, grid.Vertices[v][3]>>
                          ELSE grid.Vertices[v]],
       Indices     |-> GetIndices16(grid),
       DrawArgs    |-> SingleSubmesh("grid", Len(GetIndices16(grid)))]

(* assert(mWaves->VertexCount() < 0x0000ffff) at the head of BuildWavesGeometry *)
WavesVertexCountAsserted(m, n) == m * n < 65535

(* BuildWavesGeometry: m x n wave vertices, set dynamically; six 16-bit indices per quad *)
BuildWavesGeometry(m, n) ==
  [VertexCount |-> m * n,
   VertexBufferGPU |-> "nullptr",          \* set dynamically
   Vertices    |-> <<>>,
   Indices     |-> [x \in DOMAIN QuadIndices(m, n) |-> QuadIndices(m, n)[x] % 65536],
   DrawArgs    |-> SingleSubmesh("grid", Len(QuadIndices(m, n)))]

treeCount == 16

(* BuildTreeSpritesGeometry: treeCount points at random places, indices 0..treeCount-1 *)
BuildTreeSpritesGeometry ==
  [VertexCount |-> treeCount,
   VertexBufferGPU |-> DefaultBuffer,
   Vertices    |-> <<>>,
   Indices     |-> [x \in 1..treeCount |-> x - 1],
   DrawArgs    |-> SingleSubmesh("points", treeCount)]

-----------------------------------------------------------------------------
(* BuildRenderItems.  An item is first described by what the source assigns *)
(* to it; MakeRenderItem then resolves the geometry and the matrices.       *)

Ritem(name, objCBIndex, layer, geo, sub, mat, worldExpr, texExpr) ==
  [name |-> name, ObjCBIndex |-> objCBIndex, Layer |-> layer, Geo |-> geo, Sub |-> sub,
   Mat |-> mat, WorldExpr |-> worldExpr, TexExpr |-> texExpr, TransformsBounds |-> FALSE]

CastleHandPlaced ==
  [ gridRitem |-> Ritem("gridRitem", 0, "Opaque", "landGeo", "grid", "grass",   \* lines 1941-1953
        <<Scaling(2000, 500, 2500), RotationRollPitchYaw(0, 1570800, 0), Translation(105000, 0, 0)>>, <<Scaling(10000, 15000, 1000)>>)
  , boxRitem |-> Ritem("boxRitem", 1, "AlphaTested", "shapeGeo", "box", "bricks0",   \* lines 1960-1976
        <<Scaling(1000, 2000, 15500), Translation(12000, 4000, 0)>>, <<>>)
  , boxRitem2 |-> Ritem("boxRitem2", 2, "AlphaTested", "shapeGeo", "box", "bricks0",   \* lines 1980-1996
        <<Scaling(1000, 5000, 14500), RotationRollPitchYaw(0, 1047200, 0), Translation(6000, 2500, -11000)>>, <<>>)
  , boxRitem3 |-> Ritem("boxRitem3", 3, "AlphaTested", "shapeGeo", "box", "bricks0",   \* lines 2000-2016
        <<Scaling(1000, 5000, 14500), RotationRollPitchYaw(0, -1047200, 0), Translation(-6000, 2500, -11000)>>, <<>>)
  , boxRitem4 |-> Ritem("boxRitem4", 4, "AlphaTested", "shapeGeo", "box", "bricks0",   \* lines 2019-2035
        <<Scaling(1000, 5000, 15500), Translation(-12000, 2500, 0)>>, <<>>)
  , boxRitem5 |-> Ritem("boxRitem5", 5, "AlphaTested", "shapeGeo", "box", "bricks0",   \* lines 2037-2053
        <<Scaling(1000, 5000, 14500), RotationRollPitchYaw(0, 1047200, 0), Translation(-6000, 2500, 11000)>>, <<>>)
  , boxRitem6 |-> Ritem("boxRitem6", 6, "AlphaTested", "shapeGeo", "box", "bricks0",   \* lines 2057-2073
        <<Scaling(1000, 5000, 14500), RotationRollPitchYaw(0, -1047200, 0), Translation(6000, 2500, 11000)>>, <<>>)
  , pyramidRitem |-> Ritem("pyramidRitem", 7, "AlphaTested", "shapeGeo", "pyramid", "prism0",   \* lines 2079-2095
        <<Scaling(10000, 3500, 10000), RotationRollPitchYaw(0, 785398, 0), Translation(0, 1750, 0)>>, <<>>)
  , cylinderRitem |-> Ritem("cylinderRitem", 8, "AlphaTested", "shapeGeo", "cylinder", "bricks0",   \* lines 2098-2114
        <<Scaling(2000, 8000, 2000), RotationRollPitchYaw(0, 785398, 0), Translation(0, 7500, 0)>>, <<>>)
  , cylinderRitem2 |-> Ritem("cylinderRitem2", 9, "AlphaTested", "shapeGeo", "cylinder", "bricks0",   \* lines 2116-2132
        <<Scaling(4000, 1500, 4000), RotationRollPitchYaw(0, 785398, 0), Translation(0, 12000, 0)>>, <<>>)
  , coneRitem |-> Ritem("coneRitem", 10, "AlphaTested", "shapeGeo", "cone", "roof0",   \* lines 2135-2151
        <<Scaling(700, 7500, 2500), RotationRollPitchYaw(0, 1570800, 0), Translation(0, 15500, 3000)>>, <<>>)
  , diamondRitem |-> Ritem("diamondRitem", 11, "Opaque", "shapeGeo", "diamond", "glass0",   \* lines 2154-2170
        <<Scaling(1000, 1000, 1000), RotationRollPitchYaw(0, 785398, 0), Translation(6000, 4000, 6000)>>, <<>>)
  , diamondRitem2 |-> Ritem("diamondRitem2", 12, "Opaque", "shapeGeo", "diamond", "glass0",   \* lines 2172-2188
        <<Scaling(1000, 1000, 1000), RotationRollPitchYaw(0, 785398, 0), Translation(-6000, 4000, 6000)>>, <<>>)
  , diamondRitem3 |-> Ritem("diamondRitem3", 13, "Opaque", "shapeGeo", "diamond", "glass0",   \* lines 2190-2206
        <<Scaling(1000, 1000, 1000), RotationRollPitchYaw(0, 785398, 0), Translation(6000, 4000, -6000)>>, <<>>)
  , diamondRitem4 |-> Ritem("diamondRitem4", 14, "Opaque", "shapeGeo", "diamond", "glass0",   \* lines 2208-2224
        <<Scaling(1000, 1000, 1000), RotationRollPitchYaw(0, 785398, 0), Translation(-6000, 4000, -6000)>>, <<>>)
  , prismRitem |-> Ritem("prismRitem", 15, "AlphaTested", "shapeGeo", "prism", "prism0",   \* lines 2229-2245
        <<RotationRollPitchYaw(0, -436332, 0), Scaling(2000, 5000, 2000), Translation(14000, 2500, -9000)>>, <<>>)
  , sphereRitem |-> Ritem("sphereRitem", 16, "Opaque", "shapeGeo", "sphere", "glass0",   \* lines 2248-2264
        <<Scaling(1000, 1000, 1000), Translation(14000, 5000, -9000)>>, <<>>)
  , prismRitem2 |-> Ritem("prismRitem2", 17, "AlphaTested", "shapeGeo", "prism", "prism0",   \* lines 2267-2283
        <<RotationRollPitchYaw(0, 610865, 0), Scaling(2000, 5000, 2000), Translation(-14000, 2500, 9000)>>, <<>>)
  , sphereRitem2 |-> Ritem("sphereRitem2", 18, "Opaque", "shapeGeo", "sphere", "glass0",   \* lines 2286-2302
        <<Scaling(1000, 1000, 1000), Translation(-14000, 5000, 9000)>>, <<>>)
  , prismRitem3 |-> Ritem("prismRitem3", 19, "AlphaTested", "shapeGeo", "prism", "prism0",   \* lines 2305-2321
        <<RotationRollPitchYaw(0, -610865, 0), Scaling(2000, 5000, 2000), Translation(-14000, 2500, -9000)>>, <<>>)
  , sphereRitem3 |-> Ritem("sphereRitem3", 20, "Opaque", "shapeGeo", "sphere", "glass0",   \* lines 2324-2340
        <<Scaling(1000, 1000, 1000), Translation(-14000, 5000, -9000)>>, <<>>)
  , prismRitem4 |-> Ritem("prismRitem4", 21, "AlphaTested", "shapeGeo", "prism", "prism0",   \* lines 2343-2359
        <<RotationRollPitchYaw(0, 436332, 0), Scaling(2000, 5000, 2000), Translation(14000, 2500, 9000)>>, <<>>)
  , sphereRitem4 |-> Ritem("sphereRitem4", 22, "Opaque", "shapeGeo", "sphere", "glass0",   \* lines 2362-2378
        <<Scaling(1000, 1000, 1000), Translation(14000, 5000, 9000)>>, <<>>)
  , prismRitem5 |-> Ritem("prismRitem5", 23, "AlphaTested", "shapeGeo", "prism", "prism0",   \* lines 2381-2397
        <<RotationRollPitchYaw(0, -500000, 0), Scaling(2000, 5000, 2000), Translation(0, 2500, 17000)>>, <<>>)
  , sphereRitem5 |-> Ritem("sphereRitem5", 24, "Opaque", "shapeGeo", "sphere", "glass0",   \* lines 2400-2416
        <<Scaling(1000, 1000, 1000), Translation(0, 5000, 17000)>>, <<>>)
  , prismRitem6 |-> Ritem("prismRitem6", 25, "AlphaTested", "shapeGeo", "prism", "prism0",   \* lines 2419-2435
        <<RotationRollPitchYaw(0, 500000, 0), Scaling(2000, 5000, 2000), Translation(0, 2500, -17000)>>, <<>>)
  , sphereRitem6 |-> Ritem("sphereRitem6", 26, "Opaque", "shapeGeo", "sphere", "glass0",   \* lines 2438-2454
        <<Scaling(1000, 1000, 1000), Translation(0, 5000, -17000)>>, <<>>)
  , boxRitem7 |-> Ritem("boxRitem7", 27, "AlphaTested", "shapeGeo", "box", "bricks0",   \* lines 2459-2475
        <<Scaling(1000, 5000, 6500), Translation(12000, 2500, 4500)>>, <<>>)
  , boxRitem8 |-> Ritem("boxRitem8", 28, "AlphaTested", "shapeGeo", "box", "bricks0",   \* lines 2478-2494
        <<Scaling(1000, 5000, 6500), Translation(12000, 2500, -4500)>>, <<>>)
  , cylinderRitem3 |-> Ritem("cylinderRitem3", 29, "AlphaTested", "shapeGeo", "cylinder", "rope0",   \* lines 2497-2513
        <<Scaling(100, 4000, 100), RotationRollPitchYaw(0, 0, 785398), Translation(13500, 1500, -1000)>>, <<>>)
  , cylinderRitem4 |-> Ritem("cylinderRitem4", 30, "AlphaTested", "shapeGeo", "cylinder", "rope0",   \* lines 2516-2532
        <<Scaling(100, 4000, 100), RotationRollPitchYaw(0, 0, 785398), Translation(13500, 1500, 1000)>>, <<>>)
  , torusRitem |-> Ritem("torusRitem", 31, "AlphaTested", "shapeGeo", "torus", "Torus0",   \* lines 2537-2553
        <<Scaling(2000, 1000, 2000), RotationRollPitchYaw(0, 1570800, 0), Translation(0, 17500, 0)>>, <<>>)
  , diamondRitem5 |-> Ritem("diamondRitem5", 32, "Opaque", "shapeGeo", "diamond", "glass0",   \* lines 2556-2573
        <<Scaling(500, 1000, 500), Translation(0, 18000, 0)>>, <<>>)
  ]

TexHandPlaced ==
  [ gridRitem |-> Ritem("gridRitem", 0, "Opaque", "shapeGeo", "grid", "grass0",   \* lines 1234-1250
        <<Scaling(40000, 40000, 40000), Translation(0, -1, 0)>>, <<>>)
  , boxRitem |-> Ritem("boxRitem", 1, "Opaque", "shapeGeo", "box", "bricks0",   \* lines 1256-1272
        <<Scaling(1000, 2000, 15500), Translation(12000, 4000, 0)>>, <<>>)
  , boxRitem2 |-> Ritem("boxRitem2", 2, "Opaque", "shapeGeo", "box", "bricks0",   \* lines 1298-1314
        <<Scaling(1000, 5000, 14500), RotationRollPitchYaw(0, 1047200, 0), Translation(6000, 2500, -11000)>>, <<>>)
  , boxRitem3 |-> Ritem("boxRitem3", 3, "Opaque", "shapeGeo", "box", "bricks0",   \* lines 1338-1354
        <<Scaling(1000, 5000, 14500), RotationRollPitchYaw(0, -1047200, 0), Translation(-6000, 2500, -11000)>>, <<>>)
  , boxRitem4 |-> Ritem("boxRitem4", 4, "Opaque", "shapeGeo", "box", "bricks0",   \* lines 1376-1392
        <<Scaling(1000, 5000, 15500), Translation(-12000, 2500, 0)>>, <<>>)
  , boxRitem5 |-> Ritem("boxRitem5", 5, "Opaque", "shapeGeo", "box", "bricks0",   \* lines 1414-1430
        <<Scaling(1000, 5000, 14500), RotationRollPitchYaw(0, 1047200, 0), Translation(-6000, 2500, 11000)>>, <<>>)
  , boxRitem6 |-> Ritem("boxRitem6", 6, "Opaque", "shapeGeo", "box", "bricks0",   \* lines 1453-1469
        <<Scaling(1000, 5000, 14500), RotationRollPitchYaw(0, -1047200, 0), Translation(6000, 2500, 11000)>>, <<>>)
  , pyramidRitem |-> Ritem("pyramidRitem", 7, "Opaque", "shapeGeo", "pyramid", "stone0",   \* lines 1495-1511
        <<Scaling(10000, 3500, 10000), RotationRollPitchYaw(0, 785398, 0), Translation(0, 1750, 0)>>, <<>>)
  , cylinderRitem |-> Ritem("cylinderRitem", 8, "Opaque", "shapeGeo", "cylinder", "bricks0",   \* lines 1514-1530
        <<Scaling(2000, 8000, 2000), RotationRollPitchYaw(0, 785398, 0), Translation(0, 7500, 0)>>, <<>>)
  , cylinderRitem2 |-> Ritem("cylinderRitem2", 9, "Opaque", "shapeGeo", "cylinder", "bricks0",   \* lines 1532-1548
        <<Scaling(4000, 1500, 4000), RotationRollPitchYaw(0, 785398, 0), Translation(0, 12000, 0)>>, <<>>)
  , coneRitem |-> Ritem("coneRitem", 10, "Opaque", "shapeGeo", "cone", "roof0",   \* lines 1551-1567
        <<Scaling(5000, 1500, 5000), RotationRollPitchYaw(0, 785398, 0), Translation(0, 13500, 0)>>, <<>>)
  , diamondRitem |-> Ritem("diamondRitem", 11, "Opaque", "shapeGeo", "diamond", "glass0",   \* lines 1570-1586
        <<Scaling(1000, 1000, 1000), RotationRollPitchYaw(0, 785398, 0), Translation(6000, 4000, 6000)>>, <<>>)
  , diamondRitem2 |-> Ritem("diamondRitem2", 12, "Opaque", "shapeGeo", "diamond", "glass0",   \* lines 1588-1604
        <<Scaling(1000, 1000, 1000), RotationRollPitchYaw(0, 785398, 0), Translation(-6000, 4000, 6000)>>, <<>>)
  , diamondRitem3 |-> Ritem("diamondRitem3", 13, "Opaque", "shapeGeo", "diamond", "glass0",   \* lines 1606-1622
        <<Scaling(1000, 1000, 1000), RotationRollPitchYaw(0, 785398, 0), Translation(6000, 4000, -6000)>>, <<>>)
  , diamondRitem4 |-> Ritem("diamondRitem4", 14, "Opaque", "shapeGeo", "diamond", "glass0",   \* lines 1624-1640
        <<Scaling(1000, 1000, 1000), RotationRollPitchYaw(0, 785398, 0), Translation(-6000, 4000, -6000)>>, <<>>)
  , prismRitem |-> Ritem("prismRitem", 15, "Opaque", "shapeGeo", "prism", "prism0",   \* lines 1645-1661
        <<RotationRollPitchYaw(0, -436332, 0), Scaling(2000, 5000, 2000), Translation(14000, 2500, -9000)>>, <<>>)
  , sphereRitem |-> Ritem("sphereRitem", 16, "Opaque", "shapeGeo", "sphere", "glass0",   \* lines 1664-1680
        <<Scaling(1000, 1000, 1000), Translation(14000, 5500, -9000)>>, <<>>)
  , prismRitem2 |-> Ritem("prismRitem2", 17, "Opaque", "shapeGeo", "prism", "prism0",   \* lines 1683-1699
        <<RotationRollPitchYaw(0, 610865, 0), Scaling(2000, 5000, 2000), Translation(-14000, 2500, 9000)>>, <<>>)
  , sphereRitem2 |-> Ritem("sphereRitem2", 18, "Opaque", "shapeGeo", "sphere", "glass0",   \* lines 1702-1718
        <<Scaling(1000, 1000, 1000), Translation(-14000, 5500, 9000)>>, <<>>)
  , prismRitem3 |-> Ritem("prismRitem3", 19, "Opaque", "shapeGeo", "prism", "prism0",   \* lines 1721-1737
        <<RotationRollPitchYaw(0, -610865, 0), Scaling(2000, 5000, 2000), Translation(-14000, 2500, -9000)>>, <<>>)
  , sphereRitem3 |-> Ritem("sphereRitem3", 20, "Opaque", "shapeGeo", "sphere", "glass0",   \* lines 1740-1756
        <<Scaling(1000, 1000, 1000), Translation(-14000, 5500, -9000)>>, <<>>)
  , prismRitem4 |-> Ritem("prismRitem4", 21, "Opaque", "shapeGeo", "prism", "prism0",   \* lines 1759-1775
        <<RotationRollPitchYaw(0, 436332, 0), Scaling(2000, 5000, 2000), Translation(14000, 2500, 9000)>>, <<>>)
  , sphereRitem4 |-> Ritem("sphereRitem4", 22, "Opaque", "shapeGeo", "sphere", "glass0",   \* lines 1778-1794
        <<Scaling(1000, 1000, 1000), Translation(14000, 5500, 9000)>>, <<>>)
  , prismRitem5 |-> Ritem("prismRitem5", 23, "Opaque", "shapeGeo", "prism", "prism0",   \* lines 1797-1813
        <<RotationRollPitchYaw(0, -500000, 0), Scaling(2000, 5000, 2000), Translation(0, 2500, 17000)>>, <<>>)
  , sphereRitem5 |-> Ritem("sphereRitem5", 24, "Opaque", "shapeGeo", "sphere", "glass0",   \* lines 1816-1832
        <<Scaling(1000, 1000, 1000), Translation(0, 5500, 17000)>>, <<>>)
  , prismRitem6 |-> Ritem("prismRitem6", 25, "Opaque", "shapeGeo", "prism", "prism0",   \* lines 1835-1851
        <<RotationRollPitchYaw(0, 500000, 0), Scaling(2000, 5000, 2000), Translation(0, 2500, -17000)>>, <<>>)
  , sphereRitem6 |-> Ritem("sphereRitem6", 26, "Opaque", "shapeGeo", "sphere", "glass0",   \* lines 1854-1870
        <<Scaling(1000, 1000, 1000), Translation(0, 5500, -17000)>>, <<>>)
  , boxRitem7 |-> Ritem("boxRitem7", 27, "Opaque", "shapeGeo", "box", "bricks0",   \* lines 1875-1891
        <<Scaling(1000, 5000, 6500), Translation(12000, 2500, 4500)>>, <<>>)
  , boxRitem8 |-> Ritem("boxRitem8", 28, "Opaque", "shapeGeo", "box", "bricks0",   \* lines 1894-1910
        <<Scaling(1000, 5000, 6500), Translation(12000, 2500, -4500)>>, <<>>)
  , cylinderRitem3 |-> Ritem("cylinderRitem3", 29, "Opaque", "shapeGeo", "cylinder", "rope0",   \* lines 1913-1929
        <<Scaling(100, 4000, 100), RotationRollPitchYaw(0, 0, 785398), Translation(13000, 1500, -1500)>>, <<>>)
  , cylinderRitem4 |-> Ritem("cylinderRitem4", 30, "Opaque", "shapeGeo", "cylinder", "rope0",   \* lines 1932-1948
        <<Scaling(100, 4000, 100), RotationRollPitchYaw(0, 0, 785398), Translation(13000, 1500, 1500)>>, <<>>)
  , torusRitem |-> Ritem("torusRitem", 31, "Opaque", "shapeGeo", "torus", "Torus0",   \* lines 1953-1969
        <<Scaling(4000, 2000, 2000), RotationRollPitchYaw(0, 1570800, 0), Translation(0, 17500, 0)>>, <<>>)
  , diamondRitem5 |-> Ritem("diamondRitem5", 32, "Opaque", "shapeGeo", "diamond", "glass0",   \* lines 1972-1988
        <<Scaling(1000, 2000, 1000), Translation(0, 18500, 0)>>, <<>>)
  ]

ShapesHandPlaced ==
  [ gridRitem |-> Ritem("gridRitem", 0, "Opaque", "shapeGeo", "grid", "",   \* lines 1566-1582
        <<Scaling(40000, 40000, 40000), Translation(0, -1, 0)>>, <<>>)
  , boxRitem |-> Ritem("boxRitem", 1, "Opaque", "shapeGeo", "box", "",   \* lines 1589-1605
        <<Scaling(1000, 2000, 15500), Translation(12000, 4000, 0)>>, <<>>)
  , boxRitem2 |-> Ritem("boxRitem2", 2, "Opaque", "shapeGeo", "box", "",   \* lines 1631-1647
        <<Scaling(1000, 5000, 14500), RotationRollPitchYaw(0, 1047200, 0), Translation(6000, 2500, -11000)>>, <<>>)
  , boxRitem3 |-> Ritem("boxRitem3", 3, "Opaque", "shapeGeo", "box", "",   \* lines 1671-1687
        <<Scaling(1000, 5000, 14500), RotationRollPitchYaw(0, -1047200, 0), Translation(-6000, 2500, -11000)>>, <<>>)
  , boxRitem4 |-> Ritem("boxRitem4", 4, "Opaque", "shapeGeo", "box", "",   \* lines 1709-1725
        <<Scaling(1000, 5000, 15500), Translation(-12000, 2500, 0)>>, <<>>)
  , boxRitem5 |-> Ritem("boxRitem5", 5, "Opaque", "shapeGeo", "box", "",   \* lines 1747-1763
        <<Scaling(1000, 5000, 14500), RotationRollPitchYaw(0, 1047200, 0), Translation(-6000, 2500, 11000)>>, <<>>)
  , boxRitem6 |-> Ritem("boxRitem6", 6, "Opaque", "shapeGeo", "box", "",   \* lines 1786-1802
        <<Scaling(1000, 5000, 14500), RotationRollPitchYaw(0, -1047200, 0), Translation(6000, 2500, 11000)>>, <<>>)
  , pyramidRitem |-> Ritem("pyramidRitem", 7, "Opaque", "shapeGeo", "pyramid", "",   \* lines 1828-1844
        <<Scaling(10000, 10000, 10000), RotationRollPitchYaw(0, 785398, 0), Translation(0, 500, 0)>>, <<>>)
  , cylinderRitem |-> Ritem("cylinderRitem", 8, "Opaque", "shapeGeo", "cylinder", "",   \* lines 1847-1863
        <<Scaling(2000, 8000, 2000), RotationRollPitchYaw(0, 785398, 0), Translation(0, 7500, 0)>>, <<>>)
  , cylinderRitem2 |-> Ritem("cylinderRitem2", 9, "Opaque", "shapeGeo", "cylinder", "",   \* lines 1865-1881
        <<Scaling(4000, 1500, 4000), RotationRollPitchYaw(0, 785398, 0), Translation(0, 12000, 0)>>, <<>>)
  , coneRitem |-> Ritem("coneRitem", 10, "Opaque", "shapeGeo", "cone", "",   \* lines 1884-1900
        <<Scaling(5000, 1500, 5000), RotationRollPitchYaw(0, 785398, 0), Translation(0, 13500, 0)>>, <<>>)
  , diamondRitem |-> Ritem("diamondRitem", 11, "Opaque", "shapeGeo", "diamond", "",   \* lines 1903-1919
        <<Scaling(1000, 1000, 1000), RotationRollPitchYaw(0, 785398, 0), Translation(4000, 4000, 4000)>>, <<>>)
  , diamondRitem2 |-> Ritem("diamondRitem2", 12, "Opaque", "shapeGeo", "diamond", "",   \* lines 1921-1937
        <<Scaling(1000, 1000, 1000), RotationRollPitchYaw(0, 785398, 0), Translation(-4000, 4000, 4000)>>, <<>>)
  , diamondRitem3 |-> Ritem("diamondRitem3", 13, "Opaque", "shapeGeo", "diamond", "",   \* lines 1939-1955
        <<Scaling(1000, 1000, 1000), RotationRollPitchYaw(0, 785398, 0), Translation(4000, 4000, -4000)>>, <<>>)
  , diamondRitem4 |-> Ritem("diamondRitem4", 14, "Opaque", "shapeGeo", "diamond", "",   \* lines 1957-1973
        <<Scaling(1000, 1000, 1000), RotationRollPitchYaw(0, 785398, 0), Translation(-4000, 4000, -4000)>>, <<>>)
  , prismRitem |-> Ritem("prismRitem", 15, "Opaque", "shapeGeo", "prism", "",   \* lines 1978-1994
        <<RotationRollPitchYaw(0, -436332, 0), Scaling(2000, 5000, 2000), Translation(14000, 2500, -9000)>>, <<>>)
  , sphereRitem |-> Ritem("sphereRitem", 16, "Opaque", "shapeGeo", "sphere", "",   \* lines 1997-2013
        <<Scaling(1000, 1000, 1000), Translation(14000, 5500, -9000)>>, <<>>)
  , prismRitem2 |-> Ritem("prismRitem2", 17, "Opaque", "shapeGeo", "prism", "",   \* lines 2016-2032
        <<RotationRollPitchYaw(0, 610865, 0), Scaling(2000, 5000, 2000), Translation(-14000, 2500, 9000)>>, <<>>)
  , sphereRitem2 |-> Ritem("sphereRitem2", 18, "Opaque", "shapeGeo", "sphere", "",   \* lines 2035-2051
        <<Scaling(1000, 1000, 1000), Translation(-14000, 5500, 9000)>>, <<>>)
  , prismRitem3 |-> Ritem("prismRitem3", 19, "Opaque", "shapeGeo", "prism", "",   \* lines 2054-2070
        <<RotationRollPitchYaw(0, -610865, 0), Scaling(2000, 5000, 2000), Translation(-14000, 2500, -9000)>>, <<>>)
  , sphereRitem3 |-> Ritem("sphereRitem3", 20, "Opaque", "shapeGeo", "sphere", "",   \* lines 2073-2089
        <<Scaling(1000, 1000, 1000), Translation(-14000, 5500, -9000)>>, <<>>)
  , prismRitem4 |-> Ritem("prismRitem4", 21, "Opaque", "shapeGeo", "prism", "",   \* lines 2092-2108
        <<RotationRollPitchYaw(0, 436332, 0), Scaling(2000, 5000, 2000), Translation(14000, 2500, 9000)>>, <<>>)
  , sphereRitem4 |-> Ritem("sphereRitem4", 22, "Opaque", "shapeGeo", "sphere", "",   \* lines 2111-2127
        <<Scaling(1000, 1000, 1000), Translation(14000, 5500, 9000)>>, <<>>)
  , prismRitem5 |-> Ritem("prismRitem5", 23, "Opaque", "shapeGeo", "prism", "",   \* lines 2130-2146
        <<RotationRollPitchYaw(0, -500000, 0), Scaling(2000, 5000, 2000), Translation(0, 2500, 17000)>>, <<>>)
  , sphereRitem5 |-> Ritem("sphereRitem5", 24, "Opaque", "shapeGeo", "sphere", "",   \* lines 2149-2165
        <<Scaling(1000, 1000, 1000), Translation(0, 5500, 17000)>>, <<>>)
  , prismRitem6 |-> Ritem("prismRitem6", 25, "Opaque", "shapeGeo", "prism", "",   \* lines 2168-2184
        <<RotationRollPitchYaw(0, 500000, 0), Scaling(2000, 5000, 2000), Translation(0, 2500, -17000)>>, <<>>)
  , sphereRitem6 |-> Ritem("sphereRitem6", 26, "Opaque", "shapeGeo", "sphere", "",   \* lines 2187-2203
        <<Scaling(1000, 1000, 1000), Translation(0, 5500, -17000)>>, <<>>)
  , boxRitem7 |-> Ritem("boxRitem7", 27, "Opaque", "shapeGeo", "box", "",   \* lines 2208-2224
        <<Scaling(1000, 5000, 6500), Translation(12000, 2500, 4500)>>, <<>>)
  , boxRitem8 |-> Ritem("boxRitem8", 28, "Opaque", "shapeGeo", "box", "",   \* lines 2227-2243
        <<Scaling(1000, 5000, 6500), Translation(12000, 2500, -4500)>>, <<>>)
  , cylinderRitem3 |-> Ritem("cylinderRitem3", 29, "Opaque", "shapeGeo", "cylinder", "",   \* lines 2246-2262
        <<Scaling(100, 4000, 100), RotationRollPitchYaw(0, 0, 785398), Translation(13000, 1500, -1500)>>, <<>>)
  , cylinderRitem4 |-> Ritem("cylinderRitem4", 30, "Opaque", "shapeGeo", "cylinder", "",   \* lines 2265-2281
        <<Scaling(100, 4000, 100), RotationRollPitchYaw(0, 0, 785398), Translation(13000, 1500, 1500)>>, <<>>)
  , torusRitem |-> Ritem("torusRitem", 31, "Opaque", "shapeGeo", "torus", "",   \* lines 2286-2302
        <<Scaling(4000, 2000, 2000), RotationRollPitchYaw(0, 1570800, 0), Translation(0, 17500, 0)>>, <<>>)
  , diamondRitem5 |-> Ritem("diamondRitem5", 32, "Opaque", "shapeGeo", "diamond", "",   \* lines 2305-2321
        <<Scaling(1000, 2000, 1000), Translation(0, 18500, 0)>>, <<>>)
  ]

(* the hand-placed items in the order of their declarations *)
HandOrder ==
  <<"gridRitem", "boxRitem", "boxRitem2", "boxRitem3", "boxRitem4", "boxRitem5", "boxRitem6",
    "pyramidRitem", "cylinderRitem", "cylinderRitem2", "coneRitem", "diamondRitem",
    "diamondRitem2", "diamondRitem3", "diamondRitem4", "prismRitem", "sphereRitem",
    "prismRitem2", "sphereRitem2", "prismRitem3", "sphereRitem3", "prismRitem4", "sphereRitem4",
    "prismRitem5", "sphereRitem5", "prismRitem6", "sphereRitem6", "boxRitem7", "boxRitem8",
    "cylinderRitem3", "cylinderRitem4", "torusRitem", "diamondRitem5">>

Pick(table, from, to) == [i \in 1..(to - from + 1) |-> table[HandOrder[from + i - 1]]]

(* for (float i = -6.0f; i <= 6.0f; i += 2.0f) *)
LoopSteps == <<-6000, -4000, -2000, 0, 2000, 4000, 6000>>

(* the World of the block that loop k places at step i *)
LoopWorld(k, i) ==
  CASE k = 1 -> <<Translation(12000, 5500, i)>>
    [] k = 2 -> <<Scaling(Unit, Unit, Unit), RotationRollPitchYaw(0, 1047200, 0),
                  Translation(6000 + (i * sinf(1047200)) \div Unit, 5500,
                              -11000 + (i * cosf(1047200)) \div Unit)>>
    [] k = 3 -> <<Scaling(Unit, Unit, Unit), RotationRollPitchYaw(0, -1047200, 0),
                  Translation(-6000 + (i * sinf(-1047200)) \div Unit, 5500,
                              -11000 + (i * cosf(-1047200)) \div Unit)>>
    [] k = 4 -> <<Scaling(Unit, Unit, Unit), Translation(-12000, 5500, i)>>
    [] k = 5 -> <<Scaling(Unit, Unit, Unit), RotationRollPitchYaw(0, 1047200, 0),
                  Translation(-6000 + (i * sinf(1047200)) \div Unit, 5500,
                              11000 + (i * cosf(1047200)) \div Unit)>>
    [] k = 6 -> <<Scaling(Unit, Unit, Unit), RotationRollPitchYaw(0, -1047200, 0),
                  Translation(6000 + (i * sinf(-1047200)) \div Unit, 5500,
                              11000 + (i * cosf(-1047200)) \div Unit)>>

(* the value objCBIndex has when loop k starts *)
CastleLoopFirst == <<33, 40, 41, 48, 55, 62>>

(* TexColumnsApp and ShapesApp assign 33 and 40 and let the counter run on *)
RECURSIVE RunningLoopFirst(_)
RunningLoopFirst(k) ==
  CASE k = 1 -> 33
    [] k = 2 -> 40
    [] OTHER -> RunningLoopFirst(k - 1) + Len(LoopSteps)

(* loop k: one block per step, ObjCBIndex = objCBIndex++ *)
LoopItems(k, first, layer, mat) ==
  [n \in 1..Len(LoopSteps) |->
     Ritem("smallboxRitem", first + (n - 1), layer, "shapeGeo", "box", mat,
           LoopWorld(k, LoopSteps[n]), <<>>)]

(* the switch of the four wall-top boxes *)
OutsideBoxWorld(i) ==
  CASE i = 0 -> <<Scaling(1000, 6000, 80000), Translation(-20000, -3010, 0)>>
    [] i = 1 -> <<Scaling(95000, 6000, 10000), Translation(65000, -3010, 0)>>
    [] i = 2 -> <<Scaling(100000, 7500, 1000), Translation(66000, -3010, 5000)>>
    [] i = 3 -> <<Scaling(100000, 7500, 1000), Translation(66000, -3010, -5000)>>
OutsideBoxTex(i) ==
  CASE i \in {0, 1} -> <<Scaling(15000, 1000, 1000)>>
    [] i \in {2, 3} -> <<Scaling(15000, 500, 1000)>>

(* the items CastleDesign adds after its loops; objCBIndex is 69 when the last loop ends *)
CastleTail(objCBIndex) ==
  << Ritem("wavesRitem", objCBIndex + 1, "Transparent", "waterGeo", "grid", "water",
           <<Scaling(2500, 600, 2500), Translation(20000, -3000, 0)>>, <<Scaling(7000, 7000, 1000)>>),
     Ritem("treeSpritesRitem", objCBIndex + 2, "AlphaTestedTreeSprites", "treeSpritesGeo",
           "points", "treeSprites", <<>>, <<>>),
     Ritem("coneRitem2", objCBIndex + 3, "AlphaTested", "shapeGeo", "cone", "roof0",
           <<Scaling(700, 7500, 2500), RotationRollPitchYaw(0, 1570800, 0),
             Translation(0, 15500, -3000)>>, <<>>) >>
  \o [n \in 1..4 |->
        [Ritem("outsideBox", objCBIndex + 4 + (n - 1), "AlphaTested", "shapeGeo", "box", "bricks0",
               OutsideBoxWorld(n - 1), OutsideBoxTex(n - 1)) EXCEPT !.TransformsBounds = TRUE]]
  \o << Ritem("door", objCBIndex + 4 + 4, "AlphaTested", "shapeGeo", "box", "wirefence",
              <<Scaling(3000, 500, 2500), Translation(13500, 0, 0)>>, <<>>) >>

(* map.txt as the characters `inFile >> key` reads, numbered from 0; the *)
(* characters not listed are '0'                                          *)
MapA ==
  (39 * tileMapHeight :> "1") @@ (39 * tileMapHeight + 1 :> "1") @@ (39 * tileMapHeight + 2 :> "1")
MapB == (0 :> "2") @@ (5 * tileMapHeight + 5 :> "1") @@ MapA
MapFiles == {MapA, MapB}

(* files that hold '0', '1' or another code at the first and the last cell, at *)
(* the cell where the camera is placed and at a cell in between; and a file   *)
(* that holds six cells of another code before a wall                        *)
MapCells == {0, 5 * tileMapHeight + 5, 39 * tileMapHeight + 1, tileMapWidth * tileMapHeight - 1}
OtherCodesMap == [k \in 0..6 |-> IF k = 6 THEN "1" ELSE "2"]
TileMapFiles == [MapCells -> {"0", "1", "2"}] \cup {OtherCodesMap}

(* the read loop of Initialize: character row * tileMapHeight + col goes to tilemap[row][col] *)
ReadMap(file) ==
  [c \in {<<k \div tileMapHeight, k % tileMapHeight>> :
            k \in {x \in DOMAIN file : x < tileMapWidth * tileMapHeight}} |->
     file[c[1] * tileMapHeight + c[2]]]

TileAt(tm, row, col) == IF <<row, col>> \in DOMAIN tm THEN tm[<<row, col>>] ELSE "0"

(* the block placed with the offsets along x and z exchanged *)
TileMapDrawingTransposed(key, offsetX, offsetY, offsetZ, index) ==
  IF key = "1"
  THEN << [Ritem("boxRitem", index, "AlphaTested", "shapeGeo", "box", "bricks0",
                 <<Scaling(4000, 10000, 4000),
                   Translation(114000 + offsetZ, 5000 + offsetY, offsetX - 34000)>>, <<>>)
             EXCEPT !.TransformsBounds = TRUE] >>
  ELSE <<>>

(* TileMapDrawing: '1' adds a wall block with its bounds moved to world space *)
TileMapDrawing(key, offsetX, offsetY, offsetZ, index) ==
  IF key = "1"
  THEN << [Ritem("boxRitem", index, "AlphaTested", "shapeGeo", "box", "bricks0",
                 <<Scaling(4000, 10000, 4000),
                   Translation(114000 + offsetX, 5000 + offsetY, offsetZ - 34000)>>, <<>>)
             EXCEPT !.TransformsBounds = TRUE] >>
  ELSE <<>>

(* the cells of the map that do not hold '0', as cell numbers row * tileMapHeight + col *)
NonZeroCells(tm) ==
  { c[1] * tileMapHeight + c[2] : c \in {d \in DOMAIN tm : tm[d] # "0"} }

(* the tile loop of BuildRenderItems, row-major; a '0' cell changes nothing, so *)
(* the loop is followed over the remaining cells that are not '0'              *)
RECURSIVE TileLoop(_, _, _)
TileLoop(tm, cells, objCBIndex) ==
  IF cells = {} THEN <<>>
  ELSE LET k   == CHOOSE x \in cells : \A y \in cells : x <= y
           row == k \div tileMapHeight
           col == k % tileMapHeight
       IN  TileMapDrawing(TileAt(tm, row, col), row * 4 * Unit, 0, col * 4 * Unit, objCBIndex + 1)
             \o TileLoop(tm, cells \ {k}, objCBIndex + 1)

RECURSIVE Flatten(_)
Flatten(ss) == IF ss = <<>> THEN <<>> ELSE Head(ss) \o Flatten(Tail(ss))

CastleRenderItems(tm) ==
  Pick(CastleHandPlaced, 1, Len(HandOrder))
    \o Flatten([k \in 1..Len(CastleLoopFirst) |->
                  LoopItems(k, CastleLoopFirst[k], "AlphaTested", "bricks0")])
    \o CastleTail(CastleLoopFirst[Len(CastleLoopFirst)] + Len(LoopSteps))
    \o TileLoop(tm, NonZeroCells(tm), CastleLoopFirst[Len(CastleLoopFirst)] + Len(LoopSteps) + 4 + 4)

(* TexColumnsApp and ShapesApp: a loop after each of boxRitem .. boxRitem6 *)
ColumnsRenderItems(table, mat) ==
  Pick(table, 1, 1)
    \o Flatten([k \in 1..6 |->
                  Pick(table, k + 1, k + 1) \o LoopItems(k, RunningLoopFirst(k), "Opaque", mat)])
    \o Pick(table, 8, Len(HandOrder))

BuildRenderItemsOf(v, tm) ==
  CASE v = "castle" -> CastleRenderItems(tm)
    [] v = "tex"    -> ColumnsRenderItems(TexHandPlaced, "bricks0")
    [] v = "shapes" -> ColumnsRenderItems(ShapesHandPlaced, "")

(* the item with the rotation of its World applied after the translation *)
MakeRenderItemRotatedLast(d, geos) ==
  LET world == MatrixProduct(SelectSeq(d.WorldExpr, LAMBDA f : f.op # "R")
                             \o SelectSeq(d.WorldExpr, LAMBDA f : f.op = "R"))
      args  == geos[d.Geo].DrawArgs[d.Sub]
  IN  [name |-> d.name, ObjCBIndex |-> d.ObjCBIndex, Layer |-> d.Layer, Geo |-> d.Geo,
       Mat |-> d.Mat, World |-> world, TexTransform |-> MatrixProduct(d.TexExpr),
       Bounds |-> IF d.TransformsBounds
                  THEN BoundingBoxTransform(geos[d.Geo].DrawArgs["box"].Bounds, world)
                  ELSE DefaultBoundingBox,
       NumFramesDirty |-> gNumFrameResources,
       IndexCount |-> args.IndexCount, StartIndexLocation |-> args.StartIndexLocation,
       BaseVertexLocation |-> args.BaseVertexLocation]

(* the RenderItem the description stands for: NumFramesDirty = gNumFrameResources, *)
(* Bounds default unless the source transforms the box bounds by World             *)
MakeRenderItem(d, geos) ==
  LET world == MatrixProduct(d.WorldExpr)
      args  == geos[d.Geo].DrawArgs[d.Sub]
  IN  [name |-> d.name, ObjCBIndex |-> d.ObjCBIndex, Layer |-> d.Layer, Geo |-> d.Geo,
       Mat |-> d.Mat, World |-> world, TexTransform |-> MatrixProduct(d.TexExpr),
       Bounds |-> IF d.TransformsBounds
                  THEN BoundingBoxTransform(geos[d.Geo].DrawArgs["box"].Bounds, world)
                  ELSE DefaultBoundingBox,
       NumFramesDirty |-> gNumFrameResources,
       IndexCount |-> args.IndexCount, StartIndexLocation |-> args.StartIndexLocation,
       BaseVertexLocation |-> args.BaseVertexLocation]

(* the items pushed to mAllRitems for the descriptions at places lo..hi *)
RECURSIVE PushBack(_, _, _, _)
PushBack(ds, geos, lo, hi) ==
  IF lo > hi THEN <<>>
  ELSE IF lo = hi THEN <<MakeRenderItem(ds[lo], geos)>>
  ELSE PushBack(ds, geos, lo, (lo + hi) \div 2) \o PushBack(ds, geos, (lo + hi) \div 2 + 1, hi)

BuildRenderItems(v, tm, geos) ==
  PushBack(BuildRenderItemsOf(v, tm), geos, 1, Len(BuildRenderItemsOf(v, tm)))

RenderLayers == {"Opaque", "Transparent", "AlphaTested", "AlphaTestedTreeSprites"}

(* mRitemLayer[layer] (mOpaqueRitems in the two column demos): the places in *)
(* mAllRitems of the layer's items, in push_back order                       *)
LayerOf(items, layer) == SelectSeq([i \in DOMAIN items |-> i], LAMBDA i : items[i].Layer = layer)

-----------------------------------------------------------------------------
(* Materials, frame resources, camera *)

Material(matCBIndex) ==
  [MatCBIndex |-> matCBIndex, NumFramesDirty |-> gNumFrameResources, MatTransform |-> Identity4x4]

BuildMaterials(v) ==
  CASE v = "castle" ->
         [water |-> Material(0), wirefence |-> Material(1), bricks0 |-> Material(2),
          stone0 |-> Material(3), grass |-> Material(4), roof0 |-> Material(5),
          prism0 |-> Material(6), door0 |-> Material(7), glass0 |-> Material(8),
          rope0 |-> Material(9), Torus0 |-> Material(10), treeSprites |-> Material(11)]
    [] v = "tex" ->
         [bricks0 |-> Material(0), stone0 |-> Material(1), grass0 |-> Material(2),
          roof0 |-> Material(3), prism0 |-> Material(4), door0 |-> Material(5),
          glass0 |-> Material(6), rope0 |-> Material(7), Torus0 |-> Material(8)]
    [] v = "shapes" -> <<>>

(* an upload buffer element no CopyData has written yet *)
Unwritten == [written |-> FALSE]

(* FrameResource(device, 1, objectCount, materialCount, waveVertCount) *)
FrameResource(objectCount, materialCount) ==
  [Fence        |-> 0,
   CmdListAlloc |-> 0,          \* number of commands recorded in the allocator's memory
   PassCB       |-> Unwritten,
   ObjectCB     |-> [i \in 0..(objectCount - 1) |-> Unwritten],
   MaterialCB   |-> [i \in 0..(materialCount - 1) |-> Unwritten],
   WavesVB      |-> Unwritten]

BuildFrameResources(items, mats) ==
  [s \in 0..(gNumFrameResources - 1) |-> FrameResource(Len(items), Cardinality(DOMAIN mats))]

(* UploadBuffer::CopyData(elementIndex, data); an element past the end is not in the buffer *)
CopyData(cb, elementIndex, data) ==
  IF elementIndex \in DOMAIN cb THEN [cb EXCEPT ![elementIndex] = data] ELSE cb

(* Camera(): at the origin, looking down +z *)
Camera == [Position |-> <<0, 0, 0>>, Right |-> <<Unit, 0, 0>>, Look |-> <<0, 0, Unit>>]

SetPosition(cam, x, y, z) == [cam EXCEPT !.Position = <<x, y, z>>]

RotateY(cam, angle) ==
  [cam EXCEPT !.Right = XMVector3Transform(cam.Right, XMMatrixRotationY(angle)),
              !.Look  = XMVector3Transform(cam.Look, XMMatrixRotationY(angle))]

(* Walk(d): mPosition += d * mLook;  Strafe(d): mPosition += d * mRight *)
MultiplyAdd(d, v, p) ==
  <<(d * v[1]) \div Unit + p[1], (d * v[2]) \div Unit + p[2], (d * v[3]) \div Unit + p[3]>>
Walk(cam, d) == [cam EXCEPT !.Position = MultiplyAdd(d, cam.Look, cam.Position)]
Strafe(cam, d) == [cam EXCEPT !.Position = MultiplyAdd(d, cam.Right, cam.Position)]

(* the camera as Initialize leaves it: (250, 15, -80), then moved and turned *)
(* by the tile loop at row 39, col 1                                        *)
InitialCamera(v) ==
  IF v = "castle"
  THEN RotateY(SetPosition(Camera, 124 * Unit + 39 * 4 * Unit, 1 * Unit, 1 * 4 * Unit - 34 * Unit),
               -1570800)
  ELSE Camera

-----------------------------------------------------------------------------
(* OnKeyboardInput and CollisionDetection (CastleDesign) *)

(* the point the key would move the camera to *)
ProbePoint(cam, type, d) ==
  IF type \in {"W", "S"} THEN MultiplyAdd(d, cam.Look, cam.Position)
  ELSE MultiplyAdd(d, cam.Right, cam.Position)

ProbeBox(temp) ==
  CreateFromPoints(<<temp[1] + 1500, temp[2] + 1500, temp[3] + 1000>>,
                   <<temp[1] - 1500, temp[2] - 1500, temp[3] - 500>>)

(* the probe box built around the camera instead of around the point it would move to *)
CollisionAtCamera(cam, type, d, items) ==
  \E i \in DOMAIN items : NotDisjoint(ProbeBox(cam.Position), items[i].Bounds)

CollisionDetection(cam, type, d, items) ==
  \E i \in DOMAIN items : NotDisjoint(ProbeBox(ProbePoint(cam, type, d)), items[i].Bounds)

(* 10.0f * dt, dt in thousandths of a second *)
StepLength(dt) == 10 * dt

(* one  if (key down && !CollisionDetection(type, d)) move(d);  st is the camera *)
(* and the moves made so far                                                     *)
MoveOnKey(st, keys, type, d, items) ==
  IF type \in keys /\ ~CollisionDetection(st.cam, type, d, items)
  THEN [cam     |-> IF type \in {"W", "S"} THEN Walk(st.cam, d) ELSE Strafe(st.cam, d),
        applied |-> st.applied \cup {type}]
  ELSE st

(* the four ifs in the order W, S, A, D *)
OnKeyboardInput(cam, keys, dt, items) ==
  MoveOnKey(
    MoveOnKey(
      MoveOnKey(
        MoveOnKey([cam |-> cam, applied |-> {}], keys, "W", StepLength(dt), items),
        keys, "S", -StepLength(dt), items),
      keys, "A", -StepLength(dt), items),
    keys, "D", StepLength(dt), items)

(* the keys each application asks GetAsyncKeyState for *)
KeysRead(v) ==
  CASE v = "castle" -> {"W", "S", "A", "D", "0"}
    [] v = "tex"    -> {}
    [] v = "shapes" -> {"1"}

-----------------------------------------------------------------------------
(* Initialize: the geometry batches of each application *)

BuildGeometries(v, ms) ==
  IF v = "castle"
  THEN [landGeo        |-> BuildLandGeometry(CreateGrid(160 * Unit, 160 * Unit, LandDim, LandDim)),
        waterGeo       |-> BuildWavesGeometry(WavesDim, WavesDim),
        shapeGeo       |-> BuildShapeGeometry(ms, TRUE),
        treeSpritesGeo |-> BuildTreeSpritesGeometry]
  ELSE [shapeGeo |-> BuildShapeGeometry(ms, FALSE)]

-----------------------------------------------------------------------------
(* Update: the frame-resource ring and the constant buffers *)

(* the index stepped without the wrap to slot 0 *)
NoWrapIndex(c) == Min2(c + 1, gNumFrameResources - 1)

(* mCurrFrameResourceIndex = (mCurrFrameResourceIndex + 1) % gNumFrameResources *)
NextFrameResourceIndex(c) == (c + 1) % gNumFrameResources

(* the fence check letting the GPU trail by a further turn of the ring *)
WaitBehindRing(fr, completed) ==
  fr.Fence # 0 /\ completed + gNumFrameResources < fr.Fence

(* the wait for a fence value that no Draw has signalled yet *)
WaitForUnsignalled(fr, completed) ==
  fr.Fence # 0 /\ completed < fr.Fence + gNumFrameResources

(* the fence check with <= in the place of < *)
WaitThoughRetired(fr, completed) == fr.Fence # 0 /\ completed <= fr.Fence

(* Update without the fence check *)
NeverWait(fr, completed) == FALSE

(* the fence check passing one fence value early *)
LateWait(fr, completed) == fr.Fence # 0 /\ completed + 1 < fr.Fence

(* the condition under which Update blocks on the fence event *)
MustWait(fr, completed) == fr.Fence # 0 /\ completed < fr.Fence

(* the water texture scrolled without NumFramesDirty being set again *)
AnimateWithoutRearm(v, mats, dt) ==
  IF v = "castle"
  THEN LET tu  == mats["water"].MatTransform[4][1] + (100 * dt) \div Unit
           tv  == mats["water"].MatTransform[4][2] + (20 * dt) \div Unit
           tu1 == IF tu >= Unit THEN tu - Unit ELSE tu
           tv1 == IF tv >= Unit THEN tv - Unit ELSE tv
       IN  [mats EXCEPT !["water"].MatTransform[4][1] = tu1,
                        !["water"].MatTransform[4][2] = tv1]
  ELSE mats

(* AnimateMaterials: CastleDesign scrolls the water texture, the others do nothing *)
AnimateMaterials(v, mats, dt) ==
  IF v = "castle"
  THEN LET tu  == mats["water"].MatTransform[4][1] + (100 * dt) \div Unit
           tv  == mats["water"].MatTransform[4][2] + (20 * dt) \div Unit
           tu1 == IF tu >= Unit THEN tu - Unit ELSE tu
           tv1 == IF tv >= Unit THEN tv - Unit ELSE tv
       IN  [mats EXCEPT !["water"].MatTransform[4][1] = tu1,
                        !["water"].MatTransform[4][2] = tv1,
                        !["water"].NumFramesDirty = gNumFrameResources]
  ELSE mats

(* ObjectConstants: ShapesApp has no TexTransform *)
ObjectConstants(v, e) ==
  IF v = "shapes"
  THEN [World |-> XMMatrixTranspose(e.World)]
  ELSE [World |-> XMMatrixTranspose(e.World), TexTransform |-> XMMatrixTranspose(e.TexTransform)]

(* UpdateObjectCBs: the loop copies every dirty item, in the order of    *)
(* mAllRitems, to element ObjCBIndex of the current slot's object buffer; *)
(* an element holds what the last dirty item with that index wrote        *)
UpdateObjectCBs(v, items, cb) ==
  LET dirty == {i \in DOMAIN items : items[i].NumFramesDirty > 0}
  IN  IF dirty = {} THEN cb
      ELSE [k \in DOMAIN cb |->
              LET writers == {i \in dirty : items[i].ObjCBIndex = k}
              IN  IF writers = {} THEN cb[k]
                  ELSE CopyData(cb, k, ObjectConstants(v, items[CHOOSE i \in writers :
                                                                  \A j \in writers : j <= i]))[k]]

(* the counter decremented without the test NumFramesDirty > 0 *)
DecrementAlways(e) == [e EXCEPT !.NumFramesDirty = @ - 1]

(* e->NumFramesDirty-- of the items and materials that were written *)
DecrementDirty(e) ==
  IF e.NumFramesDirty > 0 THEN [e EXCEPT !.NumFramesDirty = @ - 1] ELSE e

MaterialConstants(mat) == [MatTransform |-> XMMatrixTranspose(mat.MatTransform)]

(* UpdateMaterialCBs: every dirty material is copied to its MatCBIndex *)
UpdateMaterialCBs(mats, cb) ==
  [k \in DOMAIN cb |->
     IF \E n \in DOMAIN mats : mats[n].MatCBIndex = k /\ mats[n].NumFramesDirty > 0
     THEN MaterialConstants(mats[CHOOSE n \in DOMAIN mats :
                                   mats[n].MatCBIndex = k /\ mats[n].NumFramesDirty > 0])
     ELSE cb[k]]

(* mEyePos of the two column demos: radius 15, phi 0.2 pi, theta 1.5 pi *)
mEyePos == <<0, 12135, -8817>>

(* the pass constants of the frame before: the time not yet advanced *)
PassCBOfLastFrame(v, cam, time, dt) ==
  [EyePosW   |-> IF v = "castle" THEN cam.Position ELSE mEyePos,
   TotalTime |-> time - dt,
   DeltaTime |-> dt]

(* UpdateMainPassCB: CopyData(0, mMainPassCB) *)
MainPassCB(v, cam, time, dt) ==
  [EyePosW   |-> IF v = "castle" THEN cam.Position ELSE mEyePos,
   TotalTime |-> time,
   DeltaTime |-> dt]

(* UpdateWaves: the slot's wave vertices are the solution at the frame's time *)
UpdateWaves(time) == [solution |-> time]

-----------------------------------------------------------------------------
(* Draw: the recorded command list *)

(* the transparent layer issued first *)
TransparentFirstOrder(v, wireframe) ==
  IF v = "castle"
  THEN << [Layer |-> "Transparent", PSO |-> "transparent"],
          [Layer |-> "Opaque", PSO |-> "opaque"],
          [Layer |-> "AlphaTested", PSO |-> "alphaTested"],
          [Layer |-> "AlphaTestedTreeSprites", PSO |-> "treeSprites"] >>
  ELSE << [Layer |-> "Opaque",
           PSO   |-> IF v = "shapes" /\ wireframe THEN "opaque_wireframe" ELSE "opaque"] >>

(* the layers in the order Draw issues them, each with the pipeline state bound for it *)
DrawLayerOrder(v, wireframe) ==
  IF v = "castle"
  THEN << [Layer |-> "Opaque", PSO |-> "opaque"],
          [Layer |-> "AlphaTested", PSO |-> "alphaTested"],
          [Layer |-> "AlphaTestedTreeSprites", PSO |-> "treeSprites"],
          [Layer |-> "Transparent", PSO |-> "transparent"] >>
  ELSE << [Layer |-> "Opaque",
           PSO   |-> IF v = "shapes" /\ wireframe THEN "opaque_wireframe" ELSE "opaque"] >>

(* the loop of DrawRenderItems run from the last item of the layer to the first *)
DrawRenderItemsBackwards(v, items, mats, geos, slot, ritems) ==
  [n \in 1..Len(ritems) |->
     LET ri == items[ritems[Len(ritems) + 1 - n]]
     IN  [op |-> "DrawIndexedInstanced", item |-> ritems[Len(ritems) + 1 - n], Layer |-> ri.Layer,
          slot |-> slot, ObjCBIndex |-> ri.ObjCBIndex,
          MatCBIndex |-> IF v = "shapes" THEN "none" ELSE mats[ri.Mat].MatCBIndex,
          VertexBuffer |-> geos[ri.Geo].VertexBufferGPU,
          IndexCount |-> ri.IndexCount, StartIndexLocation |-> ri.StartIndexLocation,
          BaseVertexLocation |-> ri.BaseVertexLocation]]

(* the loop of DrawRenderItems stopping one item short of the end of the layer *)
DrawRenderItemsButLast(v, items, mats, geos, slot, ritems) ==
  [n \in 1..(Len(ritems) - 1) |->
     LET ri == items[ritems[n]]
     IN  [op |-> "DrawIndexedInstanced", item |-> ritems[n], Layer |-> ri.Layer,
          slot |-> slot, ObjCBIndex |-> ri.ObjCBIndex,
          MatCBIndex |-> IF v = "shapes" THEN "none" ELSE mats[ri.Mat].MatCBIndex,
          VertexBuffer |-> geos[ri.Geo].VertexBufferGPU,
          IndexCount |-> ri.IndexCount, StartIndexLocation |-> ri.StartIndexLocation,
          BaseVertexLocation |-> ri.BaseVertexLocation]]

(* DrawRenderItems(cmdList, ritems): one DrawIndexedInstanced per item of the layer, *)
(* its constants addressed in the object and material buffers of the slot           *)
DrawRenderItems(v, items, mats, geos, slot, ritems) ==
  [n \in 1..Len(ritems) |->
     LET ri == items[ritems[n]]
     IN  [op |-> "DrawIndexedInstanced", item |-> ritems[n], Layer |-> ri.Layer,
          slot |-> slot, ObjCBIndex |-> ri.ObjCBIndex,
          MatCBIndex |-> IF v = "shapes" THEN "none" ELSE mats[ri.Mat].MatCBIndex,
          VertexBuffer |-> geos[ri.Geo].VertexBufferGPU,
          IndexCount |-> ri.IndexCount, StartIndexLocation |-> ri.StartIndexLocation,
          BaseVertexLocation |-> ri.BaseVertexLocation]]

(* the commands between mCommandList->Reset and Close *)
RecordCommands(v, wireframe, items, mats, geos, layers, slot) ==
  LET order == DrawLayerOrder(v, wireframe)
  IN  << [op |-> "Reset", PSO |-> order[1].PSO],
         [op |-> "SetPassCB", slot |-> slot] >>
      \o Flatten([k \in 1..Len(order) |->
                    (IF k = 1 THEN <<>> ELSE << [op |-> "SetPipelineState", PSO |-> order[k].PSO] >>)
                    \o DrawRenderItems(v, items, mats, geos, slot, layers[order[k].Layer])])

-----------------------------------------------------------------------------
(* Inputs *)

(* the keys held down during one Update *)
KeySets == { {}, {"W"}, {"S"}, {"A"}, {"D"}, {"0"}, {"1"}, {"W", "D"} }

(* meshes a generator call may return: different vertex and index counts *)
GeoCatalog ==
  { CreatePyramid(Unit, Unit, 350), CreateCylinder(Unit, Unit, Unit), CreateCone(Unit, Unit),
    CreateBox(Unit, Unit, Unit), CreateGrid(Unit, Unit, GridDim, GridDim) }

GeoMeshInputs ==
  { [ShapeMeshes EXCEPT !.box = a, !.grid = b, !.sphere = c] :
      a \in GeoCatalog, b \in GeoCatalog, c \in GeoCatalog }

(* a generator result with more vertices than a 16-bit index can address, all *)
(* placed at the origin, and the one triangle that uses the last two vertices *)
FineMesh ==
  [Vertices  |-> [v \in 1..(65536 + 1) |-> <<0, 0, 0>>],
   Indices32 |-> <<0, 65535, 65536>>]

(* generator results of which some hold the fine mesh as the sphere *)
FineMeshInputs ==
  { [ShapeMeshes EXCEPT !.box = a, !.sphere = c] :
      a \in GeoCatalog, c \in {CreateSphere(200), CreateCone(Unit, Unit), FineMesh} }

-----------------------------------------------------------------------------
(* The state after construction *)

InitWith(ms) ==
  /\ variant \in Variants
  /\ pc = "Initialize"
  /\ meshes \in ms
  /\ tilemap = <<>>
  /\ mGeometries = <<>>
  /\ mMaterials = <<>>
  /\ mAllRitems = <<>>
  /\ mRitemLayer = [l \in RenderLayers |-> <<>>]
  /\ mFrameResources = <<>>
  /\ mCurrFrameResourceIndex = 0
  /\ mCurrFrameResource = NoSlot
  /\ mCurrentFence = 0
  /\ completedFence = 0
  /\ mCamera = Camera
  /\ mLava \in (IF variant = "castle" THEN BOOLEAN ELSE {FALSE})   \* bool mLava; is never initialised
  /\ mIsWireframe = FALSE
  /\ lastInput = [keys |-> {}, applied |-> {}]
  /\ totalTime = 0
  /\ cmdList = <<>>
  /\ frameLog = <<>>
  /\ updateSteps = <<>>

Init == InitWith({ShapeMeshes})

InitGeo == InitWith(GeoMeshInputs)

-----------------------------------------------------------------------------
(* Initialize *)

(* content: the characters of map.txt, or what the never-initialised tilemap *)
(* array holds when the file could not be opened                            *)
InitializeFrom(files) ==
  /\ pc = "Initialize"
  /\ \E content \in (IF variant = "castle" THEN files ELSE {<<>>}) :
       LET tm    == ReadMap(content)
           geos  == BuildGeometries(variant, meshes)
           mats  == BuildMaterials(variant)
           items == BuildRenderItems(variant, tm, geos)
       IN  /\ tilemap' = tm
           /\ mGeometries' = geos
           /\ mMaterials' = mats
           /\ mAllRitems' = items
           /\ mRitemLayer' = [l \in RenderLayers |-> LayerOf(items, l)]
           /\ mFrameResources' = BuildFrameResources(items, mats)
  /\ mCamera' = InitialCamera(variant)
  \* FlushCommandQueue: signal a new fence value and wait until the GPU reached it
  /\ mCurrentFence' = mCurrentFence + 1
  /\ completedFence' = mCurrentFence + 1
  \* the only assert of the construction is the one of BuildWavesGeometry
  /\ pc' = IF variant = "castle" /\ ~WavesVertexCountAsserted(WavesDim, WavesDim)
           THEN "AssertFailed"
           ELSE "Update"
  /\ UNCHANGED <<variant, meshes, mCurrFrameResourceIndex, mCurrFrameResource, mLava,
                 mIsWireframe, lastInput, totalTime, cmdList, frameLog, updateSteps>>

Initialize == InitializeFrom(MapFiles)

(* Initialize with any of the files of TileMapFiles as map.txt *)
InitializeAnyMap == InitializeFrom(TileMapFiles)

-----------------------------------------------------------------------------
(* Update *)

(* the calls of Update up to the fence check *)
UpdateEntry(v) == <<"OnKeyboardInput", "UpdateCamera", "Advance">>

(* the calls after the fence check, with the wave simulation moved to the front *)
WavesFirstBody(v) ==
  <<"Acquire">>
  \o CASE v = "castle" -> <<"UpdateWaves", "AnimateMaterials", "UpdateObjectCBs",
                            "UpdateMaterialCBs", "UpdateMainPassCB", "SetPosition">>
        [] v = "tex"    -> <<"AnimateMaterials", "UpdateObjectCBs", "UpdateMaterialCBs",
                            "UpdateMainPassCB">>
        [] v = "shapes" -> <<"UpdateObjectCBs", "UpdateMainPassCB">>

(* the fence check passed or the wait returned, then the calls that follow it *)
UpdateBody(v) ==
  <<"Acquire">>
  \o CASE v = "castle" -> <<"AnimateMaterials", "UpdateObjectCBs", "UpdateMaterialCBs",
                            "UpdateMainPassCB", "UpdateWaves", "SetPosition">>
        [] v = "tex"    -> <<"AnimateMaterials", "UpdateObjectCBs", "UpdateMaterialCBs",
                            "UpdateMainPassCB">>
        [] v = "shapes" -> <<"UpdateObjectCBs", "UpdateMainPassCB">>

(* the item mWavesRitem points to *)
mWavesRitem(items) == CHOOSE i \in DOMAIN items : items[i].name = "wavesRitem"

(* the waves buffer of a slot other than the current one handed to the geometry *)
WavesBufferOfNextSlot(geos, items, slot) ==
  [geos EXCEPT ![items[mWavesRitem(items)].Geo].VertexBufferGPU =
                 [WavesVB |-> NextFrameResourceIndex(slot)]]

(* mWavesRitem->Geo->VertexBufferGPU = currWavesVB->Resource() *)
SetWavesVertexBuffer(geos, items, slot) ==
  [geos EXCEPT ![items[mWavesRitem(items)].Geo].VertexBufferGPU = [WavesVB |-> slot]]

(* the part of Update after the fence check *)
UpdateRest(idx, cam, time) ==
  LET mats == AnimateMaterials(variant, mMaterials, DeltaTime)
      fr   == mFrameResources[idx]
  IN  /\ mMaterials' = [n \in DOMAIN mats |-> DecrementDirty(mats[n])]
      /\ mAllRitems' = [i \in DOMAIN mAllRitems |-> DecrementDirty(mAllRitems[i])]
      /\ mFrameResources' =
           [mFrameResources EXCEPT ![idx] =
              [fr EXCEPT !.ObjectCB   = UpdateObjectCBs(variant, mAllRitems, fr.ObjectCB),
                         !.MaterialCB = UpdateMaterialCBs(mats, fr.MaterialCB),
                         !.PassCB     = MainPassCB(variant, cam, time, DeltaTime),
                         !.WavesVB    = IF variant = "castle" THEN UpdateWaves(time) ELSE @]]
      /\ mGeometries' = IF variant = "castle"
                        THEN SetWavesVertexBuffer(mGeometries, mAllRitems, idx)
                        ELSE mGeometries
      /\ mCamera' = IF variant = "castle"
                    THEN SetPosition(cam, cam.Position[1], 2 * Unit, cam.Position[3])
                    ELSE cam
      /\ updateSteps' = UpdateEntry(variant) \o UpdateBody(variant)
      /\ pc' = "Draw"

UpdateWith(keys) ==
  /\ pc = "Update"
  /\ mCurrentFence < MaxFence
  /\ LET inp == IF variant = "castle"
                THEN OnKeyboardInput(mCamera, keys, DeltaTime, mAllRitems)
                ELSE [cam |-> mCamera, applied |-> {}]
         cam == inp.cam
         idx == NextFrameResourceIndex(mCurrFrameResourceIndex)
     IN  /\ lastInput' = [keys |-> keys \cap KeysRead(variant), applied |-> inp.applied]
         /\ mLava' = IF variant = "castle" THEN ("0" \in keys) ELSE mLava
         /\ mIsWireframe' = IF variant = "shapes" THEN ("1" \in keys) ELSE mIsWireframe
         /\ mCurrFrameResourceIndex' = idx
         /\ mCurrFrameResource' = idx
         /\ totalTime' = totalTime + DeltaTime
         /\ frameLog' = Append(frameLog, idx)
         /\ IF MustWait(mFrameResources[idx], completedFence)
            THEN /\ pc' = "Wait"
                 /\ mCamera' = cam
                 /\ updateSteps' = UpdateEntry(variant)
                 /\ UNCHANGED <<mGeometries, mMaterials, mAllRitems, mFrameResources>>
            ELSE UpdateRest(idx, cam, totalTime + DeltaTime)
  /\ UNCHANGED <<variant, meshes, tilemap, mRitemLayer, mCurrentFence,
                 completedFence, cmdList>>

Update == \E keys \in KeySets : UpdateWith(keys)

(* WaitForSingleObject returns once the fence reached the slot's value *)
UpdateResume ==
  /\ pc = "Wait"
  /\ ~MustWait(mFrameResources[mCurrFrameResource], completedFence)
  /\ UpdateRest(mCurrFrameResource, mCamera, totalTime)
  /\ UNCHANGED <<variant, meshes, tilemap, mRitemLayer, mCurrFrameResourceIndex,
                 mCurrFrameResource, mCurrentFence, completedFence, mLava, mIsWireframe,
                 lastInput, totalTime, cmdList, frameLog>>

-----------------------------------------------------------------------------
(* Draw *)

(* the place of the waves item in mAllRitems (mAllRitems[75], counted from 1) *)
WavesPlace == 75 + 1

(* the fence value handed out again instead of a new one *)
SameFence(f) == f

(* ++mCurrentFence *)
NextFence(f) == f + 1

(* the switch made on the entry after mAllRitems[75] *)
SwitchNextEntry(items, lava) ==
  [items EXCEPT ![WavesPlace + 1].Mat = IF lava THEN "water" ELSE "Torus0"]

(* the switch also taking the texture scaling off the item *)
SwitchAndRescale(items, lava) ==
  [items EXCEPT ![WavesPlace].Mat = IF lava THEN "water" ELSE "Torus0",
                ![WavesPlace].TexTransform = Identity4x4]

(* the head of Draw: mAllRitems[75]->Mat is water with mLava set, Torus0 without *)
SwitchWaterLava(items, lava) ==
  [items EXCEPT ![WavesPlace].Mat = IF lava THEN "water" ELSE "Torus0"]

Draw ==
  /\ pc = "Draw"
  /\ LET items == IF variant = "castle"
                  THEN SwitchWaterLava(mAllRitems, mLava)
                  ELSE mAllRitems
         cmds  == RecordCommands(variant, mIsWireframe, items, mMaterials, mGeometries,
                                 mRitemLayer, mCurrFrameResource)
     IN  /\ mAllRitems' = items
         /\ cmdList' = cmds
         /\ mFrameResources' =
              [mFrameResources EXCEPT ![mCurrFrameResource].CmdListAlloc = Len(cmds),
                                      ![mCurrFrameResource].Fence = NextFence(mCurrentFence)]
  /\ mCurrentFence' = NextFence(mCurrentFence)
  /\ pc' = "Update"
  /\ UNCHANGED <<variant, meshes, tilemap, mGeometries, mMaterials, mRitemLayer,
                 mCurrFrameResourceIndex, mCurrFrameResource, completedFence, mCamera, mLava,
                 mIsWireframe, lastInput, totalTime, frameLog, updateSteps>>

(* the GPU finishes the work before the oldest outstanding Signal *)
GpuRetire ==
  /\ completedFence < mCurrentFence
  /\ completedFence' = completedFence + 1
  /\ UNCHANGED <<variant, pc, meshes, tilemap, mGeometries, mMaterials, mAllRitems,
                 mRitemLayer, mFrameResources, mCurrFrameResourceIndex, mCurrFrameResource,
                 mCurrentFence, mCamera, mLava, mIsWireframe, lastInput, totalTime, cmdList,
                 frameLog, updateSteps>>

Next == Initialize \/ Update \/ UpdateResume \/ Draw \/ GpuRetire

Spec == Init /\ [][Next]_vars

(* WaitForSingleObject returns once the event of the fence is set; nothing *)
(* obliges the GPU to reach the fence value                                *)
SpecLive == Spec /\ WF_vars(UpdateResume)

(* the message loop of D3DApp::Run calls Update and Draw in turn, each wait    *)
(* returns once its event is set, and the GPU is taken to complete every       *)
(* command list submitted to it and to signal the fence after it.  The keys     *)
(* that move the camera have no part in the fence protocol and are left out.   *)
(* Update with the keys that move nothing: no key, or the water/lava key     *)
UpdateStanding == \E keys \in {{}, {"0"}} : UpdateWith(keys)
NextStanding == Initialize \/ UpdateStanding \/ UpdateResume \/ Draw \/ GpuRetire
SpecFair ==
  /\ Init /\ [][NextStanding]_vars
  /\ WF_vars(UpdateResume) /\ WF_vars(Draw) /\ WF_vars(GpuRetire)

(* the geometry batches over the generator outputs of GeoMeshInputs *)
NextGeo == Initialize

SpecGeo == InitGeo /\ [][NextGeo]_vars

(* the geometry batches over generator outputs that include the fine mesh *)
InitFine == InitWith(FineMeshInputs)

SpecFine == InitFine /\ [][NextGeo]_vars

(* the render items over the files of TileMapFiles *)
NextMap == InitializeAnyMap

SpecMap == Init /\ [][NextMap]_vars

(* the frame loop, standing, behind any of the files of TileMapFiles *)
NextMapLoop == InitializeAnyMap \/ UpdateStanding \/ UpdateResume \/ Draw \/ GpuRetire
SpecMapLoop == Init /\ [][NextMapLoop]_vars

-----------------------------------------------------------------------------
(* Properties of the geometry batches (checked under SpecGeo) *)

Built == pc # "Initialize"

(* the sum of the sizes of field f of the meshes before place p of order *)
RECURSIVE CountBefore(_, _, _)
CountBefore(order, p, f) ==
  IF p = 1 THEN 0 ELSE CountBefore(order, p - 1, f) + Len(meshes[order[p - 1]][f])

(* the vertices of the batch that the indices of sub-mesh sub address *)
AddressedVertices(geo, sub) ==
  { sub.BaseVertexLocation + geo.Indices[sub.StartIndexLocation + k] : k \in 1..sub.IndexCount }

\* C8: every sub-mesh of the castle shape batch stores the box around its own
\* vertices only: center (min+max)/2 and extents (max-min)/2 of the positions
\* of that sub-mesh, whatever the other sub-meshes of the batch hold.
C8_BoundsOfOwnVertices ==
  (Built /\ variant = "castle") =>
    \A n \in SubmeshNames :
      LET ps == Range(meshes[n].Vertices)
      IN  mGeometries["shapeGeo"].DrawArgs[n].Bounds =
            BoxFromMinMax(<<SetMin(ps, 1), SetMin(ps, 2), SetMin(ps, 3)>>,
                          <<SetMax(ps, 1), SetMax(ps, 2), SetMax(ps, 3)>>)

(* the unit box, first in the batch, is stored with center 0 and extents 0.5 *)
C8_UnitBoxWitness ==
  /\ Built /\ variant = "castle"
  /\ meshes["box"] = CreateBox(Unit, Unit, Unit)
  /\ mGeometries["shapeGeo"].DrawArgs["box"].Bounds =
       [Center |-> <<0, 0, 0>>, Extents |-> <<500, 500, 500>>]

\* C9: in the shape batch of every variant each sub-mesh's BaseVertexLocation
\* is the sum of the vertex counts of the meshes before it, its
\* StartIndexLocation the sum of their index counts, the vertex and index
\* arrays hold the meshes in that same order, and the sub-mesh's indices
\* address only its own vertices.
C9_OffsetsAreSumsOfPrecedingCounts ==
  Built =>
    \A p \in 1..Len(OffsetOrder) :
      LET geo   == mGeometries["shapeGeo"]
          m     == meshes[OffsetOrder[p]]
          sub   == geo.DrawArgs[OffsetOrder[p]]
          base  == sub.BaseVertexLocation
          start == sub.StartIndexLocation
      IN  /\ base = CountBefore(OffsetOrder, p, "Vertices")
          /\ start = CountBefore(OffsetOrder, p, "Indices32")
          /\ sub.IndexCount = Len(m.Indices32)
          /\ SubSeq(geo.Vertices, base + 1, base + Len(m.Vertices)) = m.Vertices
          /\ \A k \in 1..Len(m.Indices32) : geo.Indices[start + k] = m.Indices32[k]
          /\ AddressedVertices(geo, sub) \subseteq base..(base + Len(m.Vertices) - 1)

(* meshes of 5, 10 and 7 vertices come first: bases 0, 5, 15, the third in [15, 22) *)
C9_FiveTenSevenWitness ==
  /\ Built
  /\ Len(meshes["box"].Vertices) = 5
  /\ Len(meshes["grid"].Vertices) = 10
  /\ Len(meshes["sphere"].Vertices) = 7
  /\ mGeometries["shapeGeo"].DrawArgs["box"].BaseVertexLocation = 0
  /\ mGeometries["shapeGeo"].DrawArgs["grid"].BaseVertexLocation = 5
  /\ mGeometries["shapeGeo"].DrawArgs["sphere"].BaseVertexLocation = 15
  /\ AddressedVertices(mGeometries["shapeGeo"], mGeometries["shapeGeo"].DrawArgs["sphere"])
       = 15..21

\* C10: in every geometry batch the index ranges of two distinct sub-meshes do
\* not overlap, the vertices they address do not overlap, and every range lies
\* inside the batch's index count and vertex count.
C10_SubmeshRangesDisjointInBounds ==
  Built =>
    \A g \in DOMAIN mGeometries :
      LET geo == mGeometries[g]
          IndexRange(a) ==
            geo.DrawArgs[a].StartIndexLocation ..
              (geo.DrawArgs[a].StartIndexLocation + geo.DrawArgs[a].IndexCount - 1)
      IN  /\ \A a \in DOMAIN geo.DrawArgs :
               /\ geo.DrawArgs[a].StartIndexLocation >= 0
               /\ geo.DrawArgs[a].StartIndexLocation + geo.DrawArgs[a].IndexCount
                    <= Len(geo.Indices)
               /\ geo.DrawArgs[a].BaseVertexLocation >= 0
               /\ AddressedVertices(geo, geo.DrawArgs[a]) \subseteq 0..(geo.VertexCount - 1)
          /\ \A a, b \in DOMAIN geo.DrawArgs :
               a # b =>
                 /\ IndexRange(a) \cap IndexRange(b) = {}
                 /\ AddressedVertices(geo, geo.DrawArgs[a])
                      \cap AddressedVertices(geo, geo.DrawArgs[b]) = {}

(* a built castle: four batches, the shape batch with ten sub-meshes of different sizes *)
C10_BatchesWitness ==
  /\ Built /\ variant = "castle"
  /\ DOMAIN mGeometries = {"landGeo", "waterGeo", "shapeGeo", "treeSpritesGeo"}
  /\ mGeometries["shapeGeo"].DrawArgs["grid"].IndexCount
       # mGeometries["shapeGeo"].DrawArgs["box"].IndexCount
  /\ mGeometries["shapeGeo"].DrawArgs["torus"].StartIndexLocation > 0
  /\ mGeometries["landGeo"].DrawArgs["grid"].IndexCount = Len(mGeometries["landGeo"].Indices)

-----------------------------------------------------------------------------
(* Properties of the frame loop (checked under Spec) *)

Slots == 0..(gNumFrameResources - 1)

(* the slot was never submitted, or the GPU has passed its last submission *)
SlotFree(s) ==
  mFrameResources[s].Fence = 0 \/ completedFence >= mFrameResources[s].Fence

(* this step changes an upload buffer of slot s *)
WritesSlot(s) ==
  \/ mFrameResources'[s].ObjectCB # mFrameResources[s].ObjectCB
  \/ mFrameResources'[s].MaterialCB # mFrameResources[s].MaterialCB
  \/ mFrameResources'[s].PassCB # mFrameResources[s].PassCB
  \/ mFrameResources'[s].WavesVB # mFrameResources[s].WavesVB

(* this step is a Draw that records into slot s and submits it *)
DrawOn(s) == pc = "Draw" /\ pc' # "Draw" /\ mCurrFrameResource = s

\* C1: in every variant, whenever a step writes an upload buffer of a ring
\* slot (Update) or records into the slot and submits it (Draw), the slot was
\* never submitted (Fence = 0) or the completed fence value has reached the
\* fence value of the slot's last submission, whatever the interleaving of
\* GPU completion with the CPU's frames.
C1_RingExclusivity ==
  [][ Built => \A s \in Slots : (WritesSlot(s) \/ DrawOn(s)) => SlotFree(s) ]_vars

(* a slot that was submitted before has been written again for the frame to *)
(* draw, the GPU having just reached the slot's fence value                 *)
C1_ReuseWitness ==
  /\ pc = "Draw"
  /\ Len(frameLog) > gNumFrameResources
  /\ mFrameResources[mCurrFrameResource].Fence # 0
  /\ completedFence = mFrameResources[mCurrFrameResource].Fence
  /\ completedFence < mCurrentFence
  /\ mFrameResources[mCurrFrameResource].PassCB.TotalTime = totalTime

SlotState(s) ==
  IF mFrameResources[s].Fence = 0 THEN "Idle"
  ELSE IF completedFence < mFrameResources[s].Fence THEN "InFlight"
  ELSE "Retired"

SlotMoves(s) ==
  SlotState(s)' # SlotState(s) =>
    <<SlotState(s), SlotState(s)'>> \in
      { <<"Idle", "InFlight">>, <<"InFlight", "Retired">>, <<"Retired", "InFlight">> }

\* C2 (as amended): a ring slot only moves Idle -> InFlight -> Retired ->
\* InFlight (reuse), and Draw resets a slot's command allocator only while the
\* slot is Idle or Retired, never while it is InFlight.
C2_SlotStateMachine ==
  [][ Built => \A s \in Slots :
                 SlotMoves(s) /\ (DrawOn(s) => SlotState(s) \in {"Idle", "Retired"}) ]_vars

\* C2 (as stated): the same moves, and Draw resets a slot's command allocator
\* only while the slot is Retired.
C2_ResetOnlyWhileRetired ==
  [][ Built => \A s \in Slots :
                 SlotMoves(s) /\ (DrawOn(s) => SlotState(s) = "Retired") ]_vars

(* the fourth frame is submitted: its slot is in flight a second time *)
C2_ReuseWitness ==
  /\ pc = "Update"
  /\ Len(frameLog) > gNumFrameResources
  /\ mFrameResources[mCurrFrameResource].Fence > gNumFrameResources + 1
  /\ SlotState(mCurrFrameResource) = "InFlight"
  /\ \E t \in Slots : SlotState(t) = "Retired"

(* what UpdateObjectCBs copies for an item *)
Payload(e) ==
  IF variant = "shapes"
  THEN [World |-> XMMatrixTranspose(e.World)]
  ELSE [World |-> XMMatrixTranspose(e.World), TexTransform |-> XMMatrixTranspose(e.TexTransform)]

SlotsHolding(e) ==
  { s \in Slots : mFrameResources[s].ObjectCB[e.ObjCBIndex] = Payload(e) }

\* C3: an item armed with NumFramesDirty = N is written once per Update into
\* the current slot at its ObjCBIndex: after k Updates k slots hold its
\* payload, and once its counter is 0 every one of the N slots holds it.
C3_DirtyPropagation ==
  Built =>
    \A i \in DOMAIN mAllRitems :
      Cardinality(SlotsHolding(mAllRitems[i])) >= gNumFrameResources - mAllRitems[i].NumFramesDirty

(* TexColumnsApp after three frames: every counter is 0 and every slot holds every item *)
C3_PropagatedWitness ==
  /\ Built /\ variant = "tex"
  /\ \A i \in DOMAIN mAllRitems :
       mAllRitems[i].NumFramesDirty = 0 /\ SlotsHolding(mAllRitems[i]) = Slots

\* C4: after BuildRenderItems, in each variant, no two distinct render items
\* have the same ObjCBIndex.
C4_ObjCBIndexUnique ==
  Built =>
    \A i, j \in DOMAIN mAllRitems :
      i # j => mAllRitems[i].ObjCBIndex # mAllRitems[j].ObjCBIndex

(* the two column demos: 75 items with the indices 0..74 *)
C4_ColumnsWitness ==
  /\ Built /\ variant \in {"tex", "shapes"}
  /\ {mAllRitems[i].ObjCBIndex : i \in DOMAIN mAllRitems} = 0..(Len(mAllRitems) - 1)

(* the slots the frames i..j of frameLog used are pairwise distinct *)
DistinctWindow(i, j) ==
  \A a, b \in i..j : a # b => frameLog[a] # frameLog[b]

(* the ring index is a slot, and any N consecutive frames used N distinct slots *)
RingIndexState ==
  /\ mCurrFrameResourceIndex \in Slots
  /\ \A i \in 1..Len(frameLog) :
       i + gNumFrameResources - 1 <= Len(frameLog) => DistinctWindow(i, i + gNumFrameResources - 1)

(* a step that enters Update moves the index from c to (c + 1) mod N *)
AdvanceStep ==
  (pc = "Update" /\ pc' # "Update") =>
    /\ mCurrFrameResourceIndex' = (mCurrFrameResourceIndex + 1) % gNumFrameResources
    /\ mCurrFrameResource' = mCurrFrameResourceIndex'
    /\ frameLog' = Append(frameLog, mCurrFrameResourceIndex')

\* C5 (as amended): every Update call changes the ring index from c to
\* (c + 1) mod N, N = 3; the index is always in 0..N-1; from the first Update
\* call on mCurrFrameResource designates the slot at that index; any N
\* consecutive frames use N pairwise distinct slots.
C5_Advance ==
  /\ [](RingIndexState /\ (frameLog # <<>> => mCurrFrameResource = mCurrFrameResourceIndex))
  /\ [][AdvanceStep]_vars

\* C5 (as stated): the index is always in 0..N-1, mCurrFrameResource always
\* designates the slot at that index, and any N consecutive frames use N
\* pairwise distinct slots.
C5_PointerAlwaysAtIndex ==
  RingIndexState /\ mCurrFrameResource = mCurrFrameResourceIndex

(* four frames were started: the ring wrapped and the fourth frame uses the first frame's slot *)
C5_WrapWitness ==
  /\ Len(frameLog) = gNumFrameResources + 1
  /\ frameLog[1] = 1 /\ frameLog[2] = 2 /\ frameLog[3] = 0 /\ frameLog[4] = 1
  /\ mCurrFrameResource = mCurrFrameResourceIndex
  /\ mCurrFrameResourceIndex = 1

LayerRank ==
  [l \in RenderLayers |->
     CASE l = "Opaque" -> 1 [] l = "AlphaTested" -> 2
       [] l = "AlphaTestedTreeSprites" -> 3 [] l = "Transparent" -> 4]

LayerPSO ==
  [l \in RenderLayers |->
     CASE l = "Opaque" -> "opaque" [] l = "AlphaTested" -> "alphaTested"
       [] l = "AlphaTestedTreeSprites" -> "treeSprites" [] l = "Transparent" -> "transparent"]

(* the draw calls of the recorded command list, in order *)
DrawCalls == SelectSeq(cmdList, LAMBDA c : c.op = "DrawIndexedInstanced")

(* the places of the draw calls and of the commands that bind a pipeline state *)
DrawPlaces == {k \in DOMAIN cmdList : cmdList[k].op = "DrawIndexedInstanced"}
BindPlaces == {k \in DOMAIN cmdList : cmdList[k].op \in {"Reset", "SetPipelineState"}}

\* C6: the command list of every castle Draw issues the layers in the order
\* opaque, alpha-tested, tree sprites, transparent; every draw runs with the
\* pipeline state of its item's layer, bound before it; every item is drawn
\* once; so every opaque draw precedes every transparent draw, whatever the
\* order of the items in mAllRitems.
C6_LayerDrawOrder ==
  (variant = "castle" /\ cmdList # <<>>) =>
    LET draws == DrawCalls
        binds == BindPlaces
    IN  /\ \A k \in 1..(Len(draws) - 1) :
             LayerRank[draws[k].Layer] <= LayerRank[draws[k + 1].Layer]
        /\ \A a \in DrawPlaces :
             /\ cmdList[a].Layer = mAllRitems[cmdList[a].item].Layer
             /\ \E b \in binds : b < a
             /\ \A b \in binds :
                  (b < a /\ ~\E c \in binds : b < c /\ c < a)
                    => cmdList[b].PSO = LayerPSO[cmdList[a].Layer]
        /\ Len(draws) = Len(mAllRitems)
        /\ {draws[k].item : k \in DOMAIN draws} = DOMAIN mAllRitems

(* a castle frame with draws of all four layers, where an alpha-tested item     *)
(* pushed to mAllRitems after the transparent waves item is drawn before it     *)
C6_InsertionOrderWitness ==
  /\ variant = "castle" /\ cmdList # <<>>
  /\ {cmdList[a].Layer : a \in DrawPlaces} = RenderLayers
  /\ \E a, b \in DrawPlaces :
       /\ a < b
       /\ cmdList[a].Layer = "AlphaTested" /\ cmdList[b].Layer = "Transparent"
       /\ cmdList[a].item > cmdList[b].item

(* the direction and the sign of the displacement of a movement key *)
KeyDirection(k) == IF k \in {"W", "S"} THEN mCamera.Look ELSE mCamera.Right
KeySign(k) == IF k \in {"W", "D"} THEN 1 ELSE -1

(* the point key k would move the camera to from pos *)
ProjectedPosition(pos, k) ==
  [j \in 1..3 |-> pos[j] + (KeySign(k) * 10 * DeltaTime * KeyDirection(k)[j]) \div Unit]

(* the probe box around t is apart from the box of every item on some axis *)
ProbeApartFromAll(t) ==
  LET lo == <<t[1] - 1500, t[2] - 1500, t[3] - 500>>
      hi == <<t[1] + 1500, t[2] + 1500, t[3] + 1000>>
  IN  \A i \in DOMAIN mAllRitems :
        \E j \in 1..3 :
          \/ lo[j] > mAllRitems[i].Bounds.Center[j] + mAllRitems[i].Bounds.Extents[j]
          \/ hi[j] < mAllRitems[i].Bounds.Center[j] - mAllRitems[i].Bounds.Extents[j]

(* the position after the key k of keys: displaced iff the probe is apart from every item *)
AfterKey(pos, keys, k) ==
  IF k \in keys /\ ProbeApartFromAll(ProjectedPosition(pos, k))
  THEN ProjectedPosition(pos, k)
  ELSE pos

\* C7: in every castle Update, for each of the keys W, S, A, D that is down
\* (handled in this order), the camera is displaced to the projected position
\* if and only if the probe box around that position is disjoint from the
\* bounding box of every item of mAllRitems; otherwise the key leaves the
\* camera position unchanged.
C7_CollisionVeto ==
  [][ (variant = "castle" /\ pc = "Update" /\ pc' # "Update") =>
        LET keys == lastInput'.keys
            end  == AfterKey(AfterKey(AfterKey(AfterKey(mCamera.Position, keys, "W"),
                                               keys, "S"), keys, "A"), keys, "D")
        IN  /\ mCamera'.Position[1] = end[1]
            /\ mCamera'.Position[3] = end[3]
            /\ \A k \in {"W", "S", "A", "D"} :
                 keys = {k} =>
                   (k \in lastInput'.applied
                      <=> ProbeApartFromAll(ProjectedPosition(mCamera.Position, k))) ]_vars

(* W was down in the last Update and the wall in front of the camera vetoed the move *)
C7_VetoWitness ==
  /\ variant = "castle" /\ pc \in {"Draw", "Wait"}
  /\ lastInput.keys = {"W"}
  /\ lastInput.applied = {}
  /\ ~ProbeApartFromAll(ProjectedPosition(mCamera.Position, "W"))
  /\ mCamera.Position[1] # InitialCamera("castle").Position[1]


-----------------------------------------------------------------------------
(* Index width (SpecFine) *)

(* the 16-bit indices a batch holds for the sub-mesh are the generator's indices *)
IndicesKept(geo, sub, mesh) ==
  \A k \in 1..geo.DrawArgs[sub].IndexCount :
    geo.Indices[geo.DrawArgs[sub].StartIndexLocation + k] = mesh.Indices32[k]

\* C11: whenever a geometry batch is built from a mesh whose vertices do not
\* fit a 16-bit index, construction stops in an assertion failure; a batch
\* that was built holds no truncated index, in the shape batch as in the
\* waves grid.
C11_IndexOverflowAsserted ==
  pc \notin {"Initialize", "AssertFailed"} =>
    /\ \A name \in SubmeshNames :
         /\ Len(meshes[name].Vertices) <= 65536
         /\ IndicesKept(mGeometries["shapeGeo"], name, meshes[name])
    /\ variant = "castle" =>
         /\ WavesDim * WavesDim <= 65536
         /\ \A x \in DOMAIN mGeometries["waterGeo"].Indices :
              mGeometries["waterGeo"].Indices[x] = QuadIndices(WavesDim, WavesDim)[x]

(* the shape batch was built from the fine mesh and the index 65536 is stored as 0 *)
C11_TruncatedWitness ==
  /\ pc = "Update"
  /\ Len(meshes["sphere"].Vertices) = 65536 + 1
  /\ meshes["sphere"].Indices32[3] = 65536
  /\ LET geo == mGeometries["shapeGeo"]
     IN  geo.Indices[geo.DrawArgs["sphere"].StartIndexLocation + 3] = 0

-----------------------------------------------------------------------------
(* The fence wait (SpecLive) *)

(* Update is inside WaitForSingleObject and the fence is below the slot's value *)
Blocked ==
  /\ pc = "Wait"
  /\ MustWait(mFrameResources[mCurrFrameResource], completedFence)

\* C12: a fence wait always ends: either the GPU reaches the value Update
\* waits for, or, when it never does, the program leaves the wait in an error
\* that it reports; it does not stay blocked forever.
C12_FenceWaitFailureIsFatal == [](pc = "Wait" => <>(pc # "Wait"))

(* Update is blocked on the slot used three frames earlier, with no step of its own to take *)
C12_BlockedWitness ==
  /\ Blocked
  /\ Len(frameLog) > gNumFrameResources
  /\ ~ENABLED (Initialize \/ Update \/ UpdateResume \/ Draw)

-----------------------------------------------------------------------------
(* Submission (Spec) *)

(* a step that ends Draw hands out the next fence value and records it in the *)
(* current slot, above every value recorded before; the other slots keep theirs *)
DrawSubmits ==
  (pc = "Draw" /\ pc' = "Update") =>
    /\ cmdList' # <<>>
    /\ mCurrentFence' = mCurrentFence + 1
    /\ mFrameResources'[mCurrFrameResource].Fence = mCurrentFence'
    /\ \A s \in Slots : mFrameResources[s].Fence < mFrameResources'[mCurrFrameResource].Fence
    /\ \A s \in Slots \ {mCurrFrameResource} :
         mFrameResources'[s].Fence = mFrameResources[s].Fence

(* only Draw changes a recorded fence value or the fence counter once the ring is built *)
OnlyDrawSubmits ==
  (pc \notin {"Initialize", "Draw"}) =>
    /\ mCurrentFence' = mCurrentFence
    /\ \A s \in Slots : mFrameResources'[s].Fence = mFrameResources[s].Fence

(* no two slots hold the same non-zero Fence, and the GPU is never signalled a *)
(* value that was not handed out                                              *)
FencesDistinct ==
  pc # "Initialize" =>
    /\ \A s, t \in Slots :
         (s # t /\ mFrameResources[s].Fence # 0) =>
           mFrameResources[s].Fence # mFrameResources[t].Fence
    /\ \A s \in Slots : mFrameResources[s].Fence <= mCurrentFence
    /\ completedFence <= mCurrentFence

\* C13: every Draw increments the fence counter by exactly one, records the
\* new value as the current slot's Fence and signals that value after the
\* frame's command list; recorded fence values are strictly increasing over
\* frames and no two slots ever hold the same non-zero Fence value.
C13_SubmissionProtocol ==
  /\ []FencesDistinct
  /\ [][DrawSubmits /\ OnlyDrawSubmits]_vars

(* all three slots were submitted, with three different fence values *)
C13_ThreeFencesWitness ==
  /\ pc = "Update"
  /\ \A s \in Slots : mFrameResources[s].Fence # 0
  /\ Cardinality({mFrameResources[s].Fence : s \in Slots}) = gNumFrameResources
  /\ mFrameResources[mCurrFrameResource].Fence = mCurrentFence

-----------------------------------------------------------------------------
(* Order within a layer (Spec) *)

(* the items the recorded command list draws for the layer, in the order of the draws *)
DrawnOfLayer(l) ==
  LET ofLayer == SelectSeq(cmdList, LAMBDA c : c.op = "DrawIndexedInstanced" /\ c.Layer = l)
  IN  [k \in DOMAIN ofLayer |-> ofLayer[k].item]

(* a layer lists its items in the order of their insertion: by rising place in mAllRitems *)
LayersInInsertionOrder ==
  pc # "Initialize" =>
    \A l \in RenderLayers :
      /\ \A k \in 1..(Len(mRitemLayer[l]) - 1) : mRitemLayer[l][k] < mRitemLayer[l][k + 1]
      /\ {mRitemLayer[l][k] : k \in DOMAIN mRitemLayer[l]}
           = {i \in DOMAIN mAllRitems : mAllRitems[i].Layer = l}

(* no step after Initialize reorders, adds or removes an item of a layer *)
LayersKept ==
  pc # "Initialize" =>
    /\ mRitemLayer' = mRitemLayer
    /\ DOMAIN mAllRitems' = DOMAIN mAllRitems
    /\ \A i \in DOMAIN mAllRitems : mAllRitems'[i].Layer = mAllRitems[i].Layer

\* C14: for every layer, DrawRenderItems issues the layer's draws in exactly
\* the order in which the items were inserted into that layer, and no
\* operation reorders or removes items of a layer after insertion.
C14_WithinLayerOrder ==
  /\ [](LayersInInsertionOrder
        /\ (cmdList # <<>> => \A l \in RenderLayers : DrawnOfLayer(l) = mRitemLayer[l]))
  /\ [][LayersKept]_vars

(* the second castle frame: the alpha-tested layer holds items pushed before *)
(* and after the items of other layers, and it is drawn in push order        *)
C14_SecondFrameWitness ==
  /\ variant = "castle" /\ pc = "Update" /\ Len(frameLog) = 2
  /\ Len(mRitemLayer["AlphaTested"]) > 2
  /\ \E k \in 1..(Len(mRitemLayer["AlphaTested"]) - 1) :
       mRitemLayer["AlphaTested"][k + 1] > mRitemLayer["AlphaTested"][k] + 1
  /\ DrawnOfLayer("AlphaTested") = mRitemLayer["AlphaTested"]

-----------------------------------------------------------------------------
(* The tile map (SpecMap) *)

(* the cells of the map that hold '1' *)
WallCells == {c \in DOMAIN tilemap : tilemap[c] = "1"}

(* the places in mAllRitems of the items pushed by the tile loop: those after the door *)
TileItems ==
  LET door == CHOOSE i \in DOMAIN mAllRitems : mAllRitems[i].name = "door"
  IN  (door + 1)..Len(mAllRitems)

(* the item is a wall block of the alpha-tested layer placed for the cell *)
WallBlockOf(i, c) ==
  /\ mAllRitems[i].Layer = "AlphaTested"
  /\ mAllRitems[i].World[4][1] = 114 * Unit + 4 * Unit * c[1]
  /\ mAllRitems[i].World[4][2] = 5 * Unit
  /\ mAllRitems[i].World[4][3] = 4 * Unit * c[2] - 34 * Unit
  /\ i \in Range(mRitemLayer["AlphaTested"])

\* C15: for the 40 x 19 grid of tile codes read at startup, BuildRenderItems
\* adds exactly one wall block for each cell holding '1', at world position
\* (114 + 4*row, 5, 4*col - 34) in the alpha-tested layer, and no item for a
\* cell holding '0'; the number of wall items is the number of '1' cells.
C15_TileMapInstantiation ==
  (variant = "castle" /\ pc # "Initialize") =>
    LET tiles == TileItems
        walls == WallCells
    IN  /\ Cardinality(tiles) = Cardinality(walls)
        /\ \A c \in walls : Cardinality({i \in tiles : WallBlockOf(i, c)}) = 1
        /\ \A i \in tiles : \E c \in walls : WallBlockOf(i, c)
        /\ \A c \in DOMAIN tilemap : c[1] < tileMapWidth /\ c[2] < tileMapHeight

(* a map with walls at the first and the last cell, an empty cell and a cell *)
(* of another code: two wall blocks, at (114, 5, -34) and at (270, 5, 38)    *)
C15_TwoWallsWitness ==
  /\ variant = "castle" /\ pc = "Update"
  /\ WallCells = {<<0, 0>>, <<tileMapWidth - 1, tileMapHeight - 1>>}
  /\ \E c \in DOMAIN tilemap : tilemap[c] = "2"
  /\ \E c \in DOMAIN tilemap : tilemap[c] = "0"
  /\ Cardinality(TileItems) = 2
  /\ \E i \in TileItems : WallBlockOf(i, <<tileMapWidth - 1, tileMapHeight - 1>>)
                          /\ mAllRitems[i].World[4][1] = 270 * Unit
                          /\ mAllRitems[i].World[4][3] = 38 * Unit

-----------------------------------------------------------------------------
(* Order of the steps of one castle Update                                   *)

(* position of call c in the log of calls, 0 when it was not made *)
PosIn(log, c) ==
  IF \E i \in 1..Len(log) : log[i] = c
    THEN CHOOSE i \in 1..Len(log) : log[i] = c /\ \A j \in 1..(i - 1) : log[j] # c
    ELSE 0

(* the calls named, each made, in the order given *)
CalledInOrder(log, calls) ==
  /\ \A k \in 1..Len(calls) : PosIn(log, calls[k]) > 0
  /\ \A k \in 1..(Len(calls) - 1) : PosIn(log, calls[k]) < PosIn(log, calls[k + 1])

CastleUpdateDone == Built /\ variant = "castle" /\ pc = "Draw"

(* a step that writes a buffer of a slot is a step of Update past the fence
   check, on the slot the ring index now names, whose fence the GPU reached *)
NoWriteBeforeAcquire ==
  \A s \in Slots :
    (Built /\ WritesSlot(s)) =>
      /\ s = mCurrFrameResourceIndex'
      /\ PosIn(updateSteps', "Acquire") > PosIn(updateSteps', "Advance")
      /\ PosIn(updateSteps', "Advance") > 0
      /\ ~MustWait(mFrameResources[s], completedFence)
      /\ pc' = "Draw"

(* C16 as stated: every finished castle Update made its calls in the order
   input/camera, ring advance, fence acquire, wave simulation, render-item
   sweep, material sweep, pass constants *)
C16_WavesBeforeSweeps ==
  CastleUpdateDone =>
    CalledInOrder(updateSteps,
      <<"OnKeyboardInput", "UpdateCamera", "Advance", "Acquire", "UpdateWaves",
        "UpdateObjectCBs", "UpdateMaterialCBs", "UpdateMainPassCB">>)

(* C16 amended: every finished castle Update made its calls in the order
   input/camera, ring advance, fence acquire, material animation, render-item
   sweep, material sweep, pass constants and, last of the writes, the wave
   simulation with its vertex upload; and no step writes a buffer of a slot
   before the acquire of that slot *)
C16_StepOrder ==
  /\ [](CastleUpdateDone =>
          CalledInOrder(updateSteps,
            <<"OnKeyboardInput", "UpdateCamera", "Advance", "Acquire", "AnimateMaterials",
              "UpdateObjectCBs", "UpdateMaterialCBs", "UpdateMainPassCB", "UpdateWaves">>))
  /\ [][NoWriteBeforeAcquire]_vars

(* a castle frame past the first turn of the ring, so that its acquire had a
   fence to check, with the wave simulation run after the pass constants *)
C16_WavesLastWitness ==
  /\ CastleUpdateDone
  /\ Len(frameLog) > gNumFrameResources
  /\ PosIn(updateSteps, "UpdateWaves") > PosIn(updateSteps, "UpdateMainPassCB")
  /\ \E s \in Slots : mFrameResources[s].WavesVB # Unwritten

-----------------------------------------------------------------------------
(* World-space collision bounds of the castle's render items                 *)

(* the box of the sub-mesh item i draws, moved by the World of the item *)
WorldBoundsOf(i) ==
  LET d == BuildRenderItemsOf(variant, tilemap)[i]
  IN  BoundingBoxTransform(mGeometries[d.Geo].DrawArgs[d.Sub].Bounds, mAllRitems[i].World)

(* C17: after the castle's BuildRenderItems the Bounds of every render item
   is the bounding box of its sub-mesh transformed by the World of the item *)
C17_BoundsAreWorldSpace ==
  (Built /\ variant = "castle") =>
    \A i \in DOMAIN mAllRitems : mAllRitems[i].Bounds = WorldBoundsOf(i)

(* the wall at lines 1960-1976 is registered with the box a RenderItem is
   constructed with, while the four outer walls carry their world-space box *)
C17_DefaultBoundsWitness ==
  /\ Built /\ variant = "castle"
  /\ \E i \in DOMAIN mAllRitems :
       /\ mAllRitems[i].name = "boxRitem"
       /\ mAllRitems[i].Bounds = DefaultBoundingBox
       /\ mAllRitems[i].Bounds # WorldBoundsOf(i)
  /\ \E i \in DOMAIN mAllRitems :
       /\ mAllRitems[i].name = "outsideBox"
       /\ mAllRitems[i].Bounds = WorldBoundsOf(i)

-----------------------------------------------------------------------------
(* Constant-buffer indices against the capacities of the frame resources     *)

ObjectCapacity(s) == Cardinality(DOMAIN mFrameResources[s].ObjectCB)
MaterialCapacity(s) == Cardinality(DOMAIN mFrameResources[s].MaterialCB)

(* C18: whatever the tile map holds, the ObjCBIndex of every render item is
   below the object-constant capacity of each frame resource, which is
   mAllRitems.size(), and the MatCBIndex of every material is below the
   material-constant capacity, which is mMaterials.size() *)
C18_SlotIndicesInRange ==
  (Built /\ variant = "castle") =>
    \A s \in Slots :
      /\ ObjectCapacity(s) = Len(mAllRitems)
      /\ MaterialCapacity(s) = Cardinality(DOMAIN mMaterials)
      /\ \A i \in DOMAIN mAllRitems :
           mAllRitems[i].ObjCBIndex >= 0 /\ mAllRitems[i].ObjCBIndex < ObjectCapacity(s)
      /\ \A n \in DOMAIN mMaterials :
           mMaterials[n].MatCBIndex >= 0 /\ mMaterials[n].MatCBIndex < MaterialCapacity(s)

(* a map with six cells of a code that is neither '0' nor '1' ahead of a wall:
   the wall block is registered with an index no object buffer has *)
C18_IndexPastCapacityWitness ==
  /\ Built /\ variant = "castle"
  /\ Cardinality({c \in DOMAIN tilemap : tilemap[c] \notin {"0", "1"}}) = 6
  /\ \E i \in DOMAIN mAllRitems :
       /\ mAllRitems[i].name = "boxRitem"
       /\ mAllRitems[i].Layer = "AlphaTested"
       /\ mAllRitems[i].ObjCBIndex = Len(mAllRitems)
       /\ \A s \in Slots : mAllRitems[i].ObjCBIndex \notin DOMAIN mFrameResources[s].ObjectCB

-----------------------------------------------------------------------------
(* The dirty sweeps of one Update                                            *)

(* the step in which Update runs its sweeps: the one that passes the fence check *)
SweepStep == Built /\ pc \in {"Update", "Wait"} /\ pc' = "Draw"

(* item i is dirty and no dirty item after it in mAllRitems has its ObjCBIndex *)
LastDirtyAtIndex(i) ==
  /\ mAllRitems[i].NumFramesDirty > 0
  /\ \A j \in (i + 1)..Len(mAllRitems) :
       mAllRitems[j].NumFramesDirty > 0 => mAllRitems[j].ObjCBIndex # mAllRitems[i].ObjCBIndex

(* the sweep over the render items: a dirty item is copied to element
   ObjCBIndex, where the copy stays unless the loop copies a later item to the
   same element, and its counter goes down by one; a clean item is left as it
   is, and so is its element unless a dirty item has the same index *)
ItemsSwept ==
  LET cb == mFrameResources[mCurrFrameResourceIndex'].ObjectCB
      nb == mFrameResources'[mCurrFrameResourceIndex'].ObjectCB
      dirtyIndices == {mAllRitems[j].ObjCBIndex :
                         j \in {x \in DOMAIN mAllRitems : mAllRitems[x].NumFramesDirty > 0}}
  IN  \A i \in DOMAIN mAllRitems :
        LET e == mAllRitems[i]
        IN  IF e.NumFramesDirty > 0
            THEN /\ e.ObjCBIndex \in DOMAIN nb
                 /\ nb[e.ObjCBIndex] # Unwritten
                 /\ LastDirtyAtIndex(i) => nb[e.ObjCBIndex] = ObjectConstants(variant, e)
                 /\ mAllRitems'[i] = [e EXCEPT !.NumFramesDirty = e.NumFramesDirty - 1]
            ELSE /\ mAllRitems'[i] = e
                 /\ e.ObjCBIndex \notin dirtyIndices => nb[e.ObjCBIndex] = cb[e.ObjCBIndex]

(* the sweep over the materials, after AnimateMaterials, seen from material n *)
MaterialSwept(n) ==
  LET mat == AnimateMaterials(variant, mMaterials, DeltaTime)[n]
      cb  == mFrameResources[mCurrFrameResourceIndex'].MaterialCB
      nb  == mFrameResources'[mCurrFrameResourceIndex'].MaterialCB
  IN  IF mat.NumFramesDirty > 0
      THEN /\ nb[mat.MatCBIndex] = MaterialConstants(mat)
           /\ mMaterials'[n] = [mat EXCEPT !.NumFramesDirty = mat.NumFramesDirty - 1]
      ELSE /\ mMaterials'[n] = mat
           /\ nb[mat.MatCBIndex] = cb[mat.MatCBIndex]

(* the sweeps write no slot but the current one, and no other step of the
   frame loop touches a counter, a material or an object or material buffer *)
OnlySweepsWrite ==
  /\ \A s \in Slots \ {mCurrFrameResourceIndex'} :
       /\ mFrameResources'[s].ObjectCB = mFrameResources[s].ObjectCB
       /\ mFrameResources'[s].MaterialCB = mFrameResources[s].MaterialCB
  /\ (Built /\ ~SweepStep) =>
       /\ DOMAIN mAllRitems' = DOMAIN mAllRitems
       /\ \A i \in DOMAIN mAllRitems :
            mAllRitems'[i].NumFramesDirty = mAllRitems[i].NumFramesDirty
       /\ mMaterials' = mMaterials
       /\ \A s \in Slots :
            /\ mFrameResources'[s].ObjectCB = mFrameResources[s].ObjectCB
            /\ mFrameResources'[s].MaterialCB = mFrameResources[s].MaterialCB

CountersInRange ==
  /\ \A i \in DOMAIN mAllRitems : mAllRitems[i].NumFramesDirty \in 0..gNumFrameResources
  /\ \A n \in DOMAIN mMaterials : mMaterials[n].NumFramesDirty \in 0..gNumFrameResources

(* C19: in one Update every render item with NumFramesDirty > 0 is written to
   the current slot at its ObjCBIndex and its counter goes down by exactly
   one, an item with NumFramesDirty = 0 is neither written nor changed, the
   materials are swept the same way, and NumFramesDirty of every item and
   every material is in 0..gNumFrameResources in every reachable state *)
C19_DirtySweep ==
  /\ [](Built => CountersInRange)
  /\ [][ Built =>
           /\ OnlySweepsWrite
           /\ SweepStep =>
                /\ ItemsSwept
                /\ \A n \in DOMAIN mMaterials : MaterialSwept(n) ]_vars

(* the fourth Update: three sweeps took every item from 3 to 0, each of the
   three slots holds the constants of the items, and the sweep of the fourth
   frame passed the clean items over *)
C19_CleanItemsWitness ==
  /\ pc = "Draw"
  /\ Len(frameLog) = gNumFrameResources + 1
  /\ \A i \in DOMAIN mAllRitems : mAllRitems[i].NumFramesDirty = 0
  /\ \A s \in Slots : \A i \in DOMAIN mAllRitems :
       mFrameResources[s].ObjectCB[mAllRitems[i].ObjCBIndex] # Unwritten
  /\ \E n \in DOMAIN mMaterials : mMaterials[n].NumFramesDirty = 0

-----------------------------------------------------------------------------
(* Material constants at Draw                                                *)

(* the element of slot s that belongs to material n *)
MaterialEntry(s, n) == mFrameResources[s].MaterialCB[mMaterials[n].MatCBIndex]

(* every material's element of the current slot holds the material as it is now *)
MaterialsCurrent ==
  \A n \in DOMAIN mMaterials :
    MaterialEntry(mCurrFrameResource, n) = MaterialConstants(mMaterials[n])

(* the Update of the castle moves the water's texture transform and leaves
   the water with N - 1 frames to go: armed to N, then swept once *)
WaterRearmed ==
  (SweepStep /\ variant = "castle") =>
    /\ mMaterials'["water"].MatTransform # mMaterials["water"].MatTransform
    /\ mMaterials'["water"].NumFramesDirty = gNumFrameResources - 1
    /\ \A n \in DOMAIN mMaterials \ {"water"} :
         mMaterials'[n].MatTransform = mMaterials[n].MatTransform

(* C20: AnimateMaterials sets NumFramesDirty of the water material to
   gNumFrameResources in every frame, ahead of the material sweep of that
   frame, and at every Draw the current slot's material constants of every
   material are the material's current parameters *)
C20_MaterialsFreshAtDraw ==
  /\ [](pc = "Draw" => MaterialsCurrent)
  /\ [][WaterRearmed]_vars

(* a castle frame on a slot used before: the water's element of the current
   slot is the water of this frame, the elements of the other slots are those
   of earlier frames, and the materials that never change are clean *)
C20_WaterRewrittenWitness ==
  /\ variant = "castle" /\ pc = "Draw"
  /\ Len(frameLog) > gNumFrameResources
  /\ mMaterials["water"].NumFramesDirty = gNumFrameResources - 1
  /\ mMaterials["bricks0"].NumFramesDirty = 0
  /\ MaterialEntry(mCurrFrameResource, "water") = MaterialConstants(mMaterials["water"])
  /\ \A s \in Slots \ {mCurrFrameResource} :
       MaterialEntry(s, "water") \notin {Unwritten, MaterialConstants(mMaterials["water"])}

-----------------------------------------------------------------------------
(* The waves vertex buffer                                                   *)

(* a step changes the waves buffer of the current slot only, and the step of
   Update that passes the fence check fills it with the solution of this
   frame and hands it to the geometry of the waves item *)
WavesUpload ==
  (Built /\ variant = "castle") =>
    /\ \A s \in Slots \ {mCurrFrameResourceIndex'} :
         mFrameResources'[s].WavesVB = mFrameResources[s].WavesVB
    /\ IF SweepStep
       THEN /\ mFrameResources'[mCurrFrameResourceIndex'].WavesVB = UpdateWaves(totalTime')
            /\ mGeometries'["waterGeo"].VertexBufferGPU = [WavesVB |-> mCurrFrameResourceIndex']
       ELSE /\ \A s \in Slots : mFrameResources'[s].WavesVB = mFrameResources[s].WavesVB
            /\ mGeometries'["waterGeo"].VertexBufferGPU = mGeometries["waterGeo"].VertexBufferGPU

(* the draw commands of the last Draw for the item mWavesRitem points to *)
WavesDraws ==
  {k \in DOMAIN cmdList :
     cmdList[k].op = "DrawIndexedInstanced" /\ cmdList[k].item = mWavesRitem(mAllRitems)}

(* the commands recorded by Draw read the waves from the buffer of the slot of
   the frame, which holds the solution of the frame *)
DrawReadsWavesOfFrame ==
  (variant = "castle" /\ pc = "Update" /\ cmdList # <<>>) =>
    /\ WavesDraws # {}
    /\ \A k \in WavesDraws : cmdList[k].VertexBuffer = [WavesVB |-> mCurrFrameResource]
    /\ mFrameResources[mCurrFrameResource].WavesVB = UpdateWaves(totalTime)

(* C21: UpdateWaves writes the simulated vertices to the WavesVB of the
   current slot and to no other slot's, and points the vertex buffer of the
   waves geometry at the current slot's WavesVB, so that the Draw of the frame
   reads the buffer written in the frame *)
C21_WavesUploadCurrentSlotOnly ==
  /\ [][WavesUpload]_vars
  /\ []DrawReadsWavesOfFrame

(* after the Draw of a frame on a reused slot: the three slots hold the waves
   of three different frames and the draw was given the newest *)
C21_ThreeSolutionsWitness ==
  /\ variant = "castle" /\ pc = "Update"
  /\ Len(frameLog) > gNumFrameResources
  /\ \A s, t \in Slots : s # t => mFrameResources[s].WavesVB # mFrameResources[t].WavesVB
  /\ \A s \in Slots : mFrameResources[s].WavesVB # Unwritten
  /\ \E k \in WavesDraws : cmdList[k].VertexBuffer = [WavesVB |-> mCurrFrameResource]
  /\ mFrameResources[mCurrFrameResource].WavesVB = UpdateWaves(totalTime)

-----------------------------------------------------------------------------
(* The pass constants                                                        *)

(* what UpdateMainPassCB reads of the camera: Update sets the height of the
   camera after the pass constants were copied, x and z stay as they were *)
EyeOfFrame(eye, cam) ==
  IF variant = "castle"
  THEN eye[1] = cam.Position[1] /\ eye[3] = cam.Position[3]
  ELSE eye = mEyePos

(* the step of Update that passes the fence check copies the pass constants of
   the frame to the current slot, whatever the slot held, and no step changes
   the pass constants of another slot *)
PassUpload ==
  Built =>
    /\ \A s \in Slots \ {mCurrFrameResourceIndex'} :
         mFrameResources'[s].PassCB = mFrameResources[s].PassCB
    /\ IF SweepStep
       THEN LET cb == mFrameResources'[mCurrFrameResourceIndex'].PassCB
            IN  /\ cb.TotalTime = totalTime'
                /\ cb.DeltaTime = DeltaTime
                /\ EyeOfFrame(cb.EyePosW, mCamera')
                /\ cb # mFrameResources[mCurrFrameResourceIndex'].PassCB
       ELSE \A s \in Slots : mFrameResources'[s].PassCB = mFrameResources[s].PassCB

(* at Draw the pass constants of the current slot are those of this frame, and
   the command list of the last Draw binds the pass constants of its slot *)
PassOfFrameBound ==
  /\ pc = "Draw" =>
       /\ mFrameResources[mCurrFrameResource].PassCB # Unwritten
       /\ mFrameResources[mCurrFrameResource].PassCB.TotalTime = totalTime
  /\ (pc = "Update" /\ cmdList # <<>>) =>
       /\ cmdList[2] = [op |-> "SetPassCB", slot |-> mCurrFrameResource]
       /\ mFrameResources[mCurrFrameResource].PassCB.TotalTime = totalTime

(* C22: every Update, without a dirty check, writes the pass constants to the
   pass-constant buffer of the current slot and to no other slot's, so that at
   every Draw the pass constants bound are those computed in the same frame *)
C22_PassConstantsRewritten ==
  /\ [][PassUpload]_vars
  /\ []PassOfFrameBound

(* a frame on a reused slot with no key held: nothing moved, and still the
   slot's pass constants were replaced by those of this frame *)
C22_RewrittenWitness ==
  /\ pc = "Draw"
  /\ Len(frameLog) > gNumFrameResources
  /\ lastInput.keys = {}
  /\ mFrameResources[mCurrFrameResource].PassCB.TotalTime = totalTime
  /\ \A s \in Slots \ {mCurrFrameResource} :
       /\ mFrameResources[s].PassCB # Unwritten
       /\ mFrameResources[s].PassCB.TotalTime < totalTime

-----------------------------------------------------------------------------
(* When Update blocks on the fence                                           *)

(* the step of Update that advances the ring blocks exactly when the slot it
   selected has a recorded fence value the GPU has not reached, and the block
   ends only with the GPU at or past that value *)
AcquireBlocks ==
  /\ (pc = "Update" /\ pc' # "Update") =>
       LET fr == mFrameResources[mCurrFrameResourceIndex']
       IN  /\ pc' \in {"Wait", "Draw"}
           /\ pc' = "Wait" <=> (fr.Fence # 0 /\ completedFence < fr.Fence)
  /\ (pc = "Wait" /\ pc' # "Wait") =>
       /\ pc' = "Draw"
       /\ completedFence >= mFrameResources[mCurrFrameResource].Fence
       /\ mFrameResources'[mCurrFrameResource].Fence = mFrameResources[mCurrFrameResource].Fence

(* Update is blocked only on a slot submitted before, hence not in the first
   gNumFrameResources frames *)
BlockedOnlyOnSubmitted ==
  pc = "Wait" =>
    /\ mFrameResources[mCurrFrameResource].Fence # 0
    /\ Len(frameLog) > gNumFrameResources

(* C23: Update blocks on the fence exactly when the newly selected slot has a
   non-zero recorded Fence and the completed value of the GPU is below it, it
   resumes only once the completed value has reached the recorded value, and
   it never blocks for a slot never submitted or already retired, so the
   first gNumFrameResources frames never wait *)
C23_AcquireBlockingCondition ==
  /\ [][AcquireBlocks]_vars
  /\ []BlockedOnlyOnSubmitted

(* three frames are submitted and none is retired: Update has selected the
   slot of the oldest of them and is blocked on it, the GPU one fence value
   short of the value recorded in the slot *)
C23_BlockedOnOldestWitness ==
  /\ pc = "Wait"
  /\ completedFence + 1 = mFrameResources[mCurrFrameResource].Fence
  /\ mCurrentFence = mFrameResources[mCurrFrameResource].Fence + gNumFrameResources - 1

-----------------------------------------------------------------------------
(* Forward progress (SpecFair)                                               *)

(* every fence value recorded in a slot was handed out and signalled by a Draw *)
WaitedValueSignalled ==
  \A s \in Slots : mFrameResources[s].Fence <= mCurrentFence

(* C24: with a GPU that completes every submitted command list and signals
   its fence, every fence wait of Update returns and every frame that Update
   prepared is submitted by Draw; the value Update waits for was enqueued by
   the Signal of an earlier Draw, so the loop of CPU and GPU has no deadlock *)
C24_ForwardProgress ==
  /\ [](pc = "Wait" => <>(pc = "Draw"))
  /\ [](pc = "Draw" => <>(pc = "Update" /\ cmdList # <<>>))
  /\ [](Built => WaitedValueSignalled)
  /\ [](pc = "Wait" => mFrameResources[mCurrFrameResource].Fence \in 1..mCurrentFence)

(* a wait has returned: the frame whose Update found three submissions
   unretired is ready to be drawn on the slot of the oldest, now retired *)
C24_WaitReturnedWitness ==
  /\ pc = "Draw"
  /\ Len(frameLog) > gNumFrameResources
  /\ completedFence = mFrameResources[mCurrFrameResource].Fence
  /\ mCurrentFence = completedFence + gNumFrameResources - 1
  /\ updateSteps = UpdateEntry(variant) \o UpdateBody(variant)

-----------------------------------------------------------------------------
(* Frames in flight                                                          *)

(* submitted frames the GPU has not retired *)
FramesInFlight == mCurrentFence - completedFence

(* a step that writes a buffer of a slot is taken with at most
   gNumFrameResources - 1 frames in flight, and so is the Draw that follows *)
WritesWithRoom ==
  /\ (Built /\ \E s \in Slots : WritesSlot(s)) => FramesInFlight <= gNumFrameResources - 1
  /\ (Built /\ pc' = "Draw") => FramesInFlight' <= gNumFrameResources - 1

(* C25: in every reachable state the number of submitted frames the GPU has
   not retired, the fence counter minus the completed fence value, is at most
   gNumFrameResources = 3, and it is at most gNumFrameResources - 1 while
   Update writes the buffers of a slot *)
C25_BoundedFramesInFlight ==
  /\ [](FramesInFlight \in 0..gNumFrameResources)
  /\ [][WritesWithRoom]_vars

(* the ring is full: three frames submitted and none retired, a second time *)
C25_RingFullWitness ==
  /\ FramesInFlight = gNumFrameResources
  /\ Len(frameLog) > gNumFrameResources
  /\ pc = "Update"
  /\ \A s \in Slots : SlotState(s) = "InFlight"

-----------------------------------------------------------------------------
(* One draw per render item per frame                                        *)

(* the places the lists of the layers hold, and how many entries they have *)
PlacesInLayers ==
  UNION {{mRitemLayer[l][n] : n \in DOMAIN mRitemLayer[l]} : l \in DOMAIN mRitemLayer}

RECURSIVE EntriesOfLayers(_)
EntriesOfLayers(ls) ==
  IF ls = {} THEN 0
  ELSE LET l == CHOOSE x \in ls : TRUE
       IN  Len(mRitemLayer[l]) + EntriesOfLayers(ls \ {l})

(* every place of mAllRitems is in the lists, and the lists have as many
   entries as there are places: each item is once in one layer *)
OneLayerEach ==
  /\ PlacesInLayers = DOMAIN mAllRitems
  /\ EntriesOfLayers(DOMAIN mRitemLayer) = Len(mAllRitems)

IsDraw(c) == c.op = "DrawIndexedInstanced"

(* the draw c of the last command list carries the index range of its item
   and addresses the constants at ObjCBIndex and at the MatCBIndex of the
   item's material in the buffers of the frame's slot *)
DrawOfItsItem(c) ==
  /\ c.item \in DOMAIN mAllRitems
  /\ c.IndexCount = mAllRitems[c.item].IndexCount
  /\ c.StartIndexLocation = mAllRitems[c.item].StartIndexLocation
  /\ c.BaseVertexLocation = mAllRitems[c.item].BaseVertexLocation
  /\ c.slot = mCurrFrameResource
  /\ c.ObjCBIndex = mAllRitems[c.item].ObjCBIndex
  /\ variant # "shapes" => c.MatCBIndex = mMaterials[mAllRitems[c.item].Mat].MatCBIndex

(* as many draws as items and every item drawn: one draw for each *)
OneDrawEach ==
  LET draws == SelectSeq(cmdList, IsDraw)
  IN  /\ Len(draws) = Len(mAllRitems)
      /\ {draws[k].item : k \in DOMAIN draws} = DOMAIN mAllRitems
      /\ \A k \in DOMAIN draws : DrawOfItsItem(draws[k])

(* C26: every registered render item belongs to exactly one layer, and each
   frame issues exactly one indexed-instanced draw for it, with the item's
   IndexCount, StartIndexLocation and BaseVertexLocation, its object constants
   addressed at ObjCBIndex of the current slot's object buffer and its material
   constants at MatCBIndex of the current slot's material buffer *)
C26_OneDrawPerItem ==
  /\ Built => OneLayerEach
  /\ (pc = "Update" /\ cmdList # <<>>) => OneDrawEach

(* the castle after the Draw of a frame on a reused slot: as many draws as
   items, spread over the four layers *)
C26_CastleFrameWitness ==
  /\ variant = "castle" /\ pc = "Update"
  /\ Len(frameLog) > gNumFrameResources
  /\ Cardinality({k \in DOMAIN cmdList : cmdList[k].op = "DrawIndexedInstanced"})
       = Len(mAllRitems)
  /\ \A l \in RenderLayers : mRitemLayer[l] # <<>>
  /\ \E k \in DOMAIN cmdList :
       cmdList[k].op = "DrawIndexedInstanced" /\ cmdList[k].slot = mCurrFrameResource

-----------------------------------------------------------------------------
(* Render items at run time                                                  *)

(* what of a render item places it and selects its indices and constants *)
Placement(e) ==
  <<e.World, e.TexTransform, e.ObjCBIndex, e.IndexCount, e.StartIndexLocation,
    e.BaseVertexLocation>>

(* C27: after the scene is built no Update and no Draw changes the World,
   TexTransform, ObjCBIndex, IndexCount, StartIndexLocation or
   BaseVertexLocation of a render item, and no render item is added to or
   removed from mAllRitems or from a layer *)
C27_RenderItemsImmutable ==
  [][ Built =>
        /\ DOMAIN mAllRitems' = DOMAIN mAllRitems
        /\ \A i \in DOMAIN mAllRitems : Placement(mAllRitems'[i]) = Placement(mAllRitems[i])
        /\ mRitemLayer' = mRitemLayer ]_vars

(* the castle after four frames: the sweeps have counted every item down and
   Draw has given the waves item another material, the only changes made *)
C27_OnlyMaterialChangedWitness ==
  /\ variant = "castle" /\ pc = "Update"
  /\ Len(frameLog) > gNumFrameResources
  /\ \A i \in DOMAIN mAllRitems : mAllRitems[i].NumFramesDirty = 0
  /\ mAllRitems[WavesPlace].Mat = "Torus0"
  /\ mAllRitems[WavesPlace].TexTransform # Identity4x4
  /\ Len(mAllRitems) = Len(BuildRenderItemsOf(variant, tilemap))

-----------------------------------------------------------------------------
(* Composition of the World matrices (SpecMap)                               *)

(* the kinds of the factors of the World of item i, in the order written *)
FactorKinds(i) ==
  LET e == BuildRenderItemsOf(variant, tilemap)[i].WorldExpr
  IN  [k \in DOMAIN e |-> e[k].op]

IsScaling(f) == f.op = "S"
IsRotation(f) == f.op = "R"
IsTranslation(f) == f.op = "T"

(* the factors of the World of item i put in the order scale, rotate, translate *)
ScaleRotateTranslate(i) ==
  LET e == BuildRenderItemsOf(variant, tilemap)[i].WorldExpr
  IN  SelectSeq(e, IsScaling) \o SelectSeq(e, IsRotation) \o SelectSeq(e, IsTranslation)

(* C28 as stated: the World of every render item of every variant is composed
   in the order scale, rotate, translate; none has a rotation before a scaling *)
C28_ScaleBeforeRotation ==
  Built =>
    \A i \in DOMAIN mAllRitems :
      FactorKinds(i) \in {<<>>, <<"S">>, <<"T">>, <<"S", "T">>, <<"S", "R", "T">>}

(* C28 amended: the World of every render item is written as scale, rotate,
   translate or, for the prism items, as rotate, scale, translate, and in
   either case is the matrix of its factors taken in the order scale, rotate,
   translate *)
C28_WorldIsScaleRotateTranslate ==
  Built =>
    \A i \in DOMAIN mAllRitems :
      /\ FactorKinds(i) \in {<<>>, <<"S">>, <<"T">>, <<"S", "T">>, <<"S", "R", "T">>,
                             <<"R", "S", "T">>}
      /\ mAllRitems[i].World = MatrixProduct(ScaleRotateTranslate(i))

(* the castle is built and holds a prism whose World is written with the
   rotation first, next to a wall written with the scaling first *)
C28_RotationFirstWitness ==
  /\ Built /\ variant = "castle"
  /\ \E i \in DOMAIN mAllRitems :
       /\ mAllRitems[i].name = "prismRitem"
       /\ FactorKinds(i) = <<"R", "S", "T">>
       /\ mAllRitems[i].World = MatrixProduct(ScaleRotateTranslate(i))
  /\ \E i \in DOMAIN mAllRitems :
       /\ mAllRitems[i].name = "boxRitem2"
       /\ FactorKinds(i) = <<"S", "R", "T">>

-----------------------------------------------------------------------------
(* The water/lava switch (SpecMapLoop)                                       *)

(* mAllRitems[75] is the item mWavesRitem points to, the single entry of the
   transparent layer *)
SwitchTargetsWaves ==
  /\ WavesPlace \in DOMAIN mAllRitems
  /\ mAllRitems[WavesPlace].name = "wavesRitem"
  /\ mWavesRitem(mAllRitems) = WavesPlace
  /\ mRitemLayer["Transparent"] = <<WavesPlace>>

(* no step gives another item another material *)
OtherMaterialsKept ==
  (Built /\ variant = "castle") =>
    \A i \in DOMAIN mAllRitems \ {WavesPlace} : mAllRitems'[i].Mat = mAllRitems[i].Mat

(* C29: whatever the tile map holds, the entry mAllRitems[75] that Draw gives
   a material in every frame is the waves render item, the only item of the
   transparent layer, and after Draw its material is water when mLava, the
   state of the '0' key, is set, and Torus0 when it is not *)
C29_SwitchTargetsWavesItem ==
  /\ []((Built /\ variant = "castle") => SwitchTargetsWaves)
  /\ []((variant = "castle" /\ pc = "Update" /\ cmdList # <<>>) =>
          mAllRitems[WavesPlace].Mat = IF mLava THEN "water" ELSE "Torus0")
  /\ [][OtherMaterialsKept]_vars

(* a castle with wall blocks from the map, drawn with the '0' key up: the
   waves item, built with the water material, now carries Torus0 *)
C29_SwitchedWitness ==
  /\ variant = "castle" /\ pc = "Update" /\ cmdList # <<>>
  /\ Len(mAllRitems) > Len(CastleRenderItems(<<>>))
  /\ ~mLava
  /\ mAllRitems[WavesPlace].name = "wavesRitem"
  /\ mAllRitems[WavesPlace].Mat = "Torus0"
  /\ \E k \in DOMAIN cmdList :
       /\ cmdList[k].op = "DrawIndexedInstanced"
       /\ cmdList[k].item = WavesPlace
       /\ cmdList[k].MatCBIndex = mMaterials["Torus0"].MatCBIndex
=============================================================================
